---------------------------- MODULE Spec2Model ----------------------------
(***************************************************************************)
(* A model of the Triton VM front end and trace builder:                   *)
(*   - the instruction set (triton-opcodes/src/instruction.rs): opcode,    *)
(*     size, ib, strip, TryFrom<u32>, Display;                             *)
(*   - the assembler (same file): parse, parse_token, the pseudo-          *)
(*     instruction expansions, parse_elem, parse_label, convert_labels;    *)
(*   - the trace builder (triton-vm/src/vm.rs): simulate and               *)
(*     AlgebraicExecutionTrace::append_hash_trace.                         *)
(*   - runs of the pseudo-instruction expansions on an operational stack,  *)
(*     with the instructions they are made of (pop, push, divine, dup,     *)
(*     swap, assert, split, eq, lsb, add, mul).                            *)
(*   - the tokenizer of parse on texts of characters (comment removal and  *)
(*     split_whitespace), the decoders TryFrom<u32>, <u64> and <usize>,    *)
(*     and run (vm.rs), the snapshot-stepping counterpart of simulate.     *)
(*                                                                         *)
(* Machine widths are scaled, because TLC's integers are 32 bits wide: a   *)
(* u32 limb has LimbBits bits, a u64 has 2*LimbBits bits, an i128 has      *)
(* 4*LimbBits bits, and the field characteristic keeps its shape           *)
(* 2^64 - 2^32 + 1 as 2^(2*LimbBits) - 2^LimbBits + 1.                     *)
(*                                                                         *)
(* An instruction is a tuple whose head is the variant's name, followed by *)
(* the argument the variant carries: <<"Pop">>, <<"Push", x>>,             *)
(* <<"Divine", hint>>, <<"Dup", n>>, <<"Swap", n>>, <<"Call", dest>>.      *)
(***************************************************************************)
EXTENDS Integers, Sequences, FiniteSets, TLC

VARIABLES
    \* ---- instruction-set runs (SpecIsa)
    destType,      \* "Address" (Instruction) or "Label" (AnInstruction<String>)
    instr,         \* the instruction under study
    ipc,           \* position of the instruction-set run
    opc,           \* instr.opcode()
    bits,          \* [b \in 0..6 |-> instr.ib(b)]
    sz,            \* instr.size()
    decoded,       \* Instruction::try_from(opc)
    shown,         \* the tokens of format!("{}", instr)
    reparsed,      \* parse(shown)
    redisplayed,   \* the tokens of the display of every element of reparsed
    \* ---- assembler runs (SpecAsm)
    text,          \* the token sequence of the source text
    apc,           \* position of the assembler run
    parsed,        \* parse(text)
    resolved,      \* convert_labels(parsed)
    \* ---- trace-builder runs (Spec)
    script,        \* what the external step function does, step by step
    vpc,           \* position inside simulate
    state,         \* the VMState simulate owns
    processor_matrix,  \* aet.processor_matrix, a sequence of rows
    hash_matrix,       \* aet.hash_matrix, a sequence of rows
    stdout,        \* the output stream
    err,           \* the Option<Error> simulate returns
    \* ---- runs of a pseudo-instruction's expansion (SpecExec)
    mnemonic,      \* the pseudo-instruction of the source text
    operands,      \* the operational stack before the run, top last
    hint,          \* the value the hint channel supplies to divine_quotient
    assembled,     \* the instructions the text assembles to, or the error
    xpc,           \* position of the run
    op_stack,      \* the operational stack, top last
    failure,       \* the error that ended the run, if any
    \* ---- the tokenizer of parse (SpecLex)
    code_with_comments,  \* the source text, a sequence of characters
    lpc,           \* position of the tokenizer run
    code,          \* the text after remove_comments.replace_all
    token_list,    \* code.split_whitespace()
    \* ---- the decoders from integers (SpecDecode)
    decoder,       \* "u32", "u64" or "usize"
    number,        \* the integer given to try_from
    dpc,           \* position of the decoder run
    outcome,       \* Instruction::try_from(number)
    \* ---- run, after simulate, on the same program and inputs (SpecRun)
    rpc,           \* position inside run
    states,        \* the Vec<VMState> of run
    run_stdout,    \* the output stream of run
    run_err        \* the Option<Error> run returns

isaVars == <<destType, instr, ipc, opc, bits, sz, decoded, shown, reparsed, redisplayed>>
asmVars == <<text, apc, parsed, resolved>>
vmVars  == <<script, vpc, state, processor_matrix, hash_matrix, stdout, err>>
exeVars == <<mnemonic, operands, hint, assembled, xpc, op_stack, failure>>
lexVars == <<code_with_comments, lpc, code, token_list>>
decVars == <<decoder, number, dpc, outcome>>
runVars == <<rpc, states, run_stdout, run_err>>
vars    == <<isaVars, asmVars, vmVars, exeVars, lexVars, decVars, runVars>>

---------------------------------------------------------------------------
(* Bounds of the model *)

\* bits of a u32 limb (32 in the source)
LimbBits == 4
\* longest source text, in tokens
MaxTokens == 4
\* longest run of the external machine, in steps
MaxSteps == 4

---------------------------------------------------------------------------
(* The field *)

Pow2(n) == 2 ^ n

\* BFieldElement::QUOTIENT, the field characteristic
QUOTIENT == Pow2(2 * LimbBits) - Pow2(LimbBits) + 1

U64_MAX == Pow2(2 * LimbBits) - 1
I128_MIN == 0 - Pow2(4 * LimbBits - 1)
I128_MAX == Pow2(4 * LimbBits - 1) - 1

BFieldElements == 0 .. (QUOTIENT - 1)

\* BFieldElement::new(value: u64)
BFieldElementNew(n) == n % QUOTIENT

\* -x in the field
BFieldNeg(x) == (QUOTIENT - x) % QUOTIENT

---------------------------------------------------------------------------
(* The instruction set *)

\* Ord16: ST0 .. ST15 as 0 .. 15
Ord16 == 0 .. 15
\* Ord7: IB0 .. IB6 as 0 .. 6
Ord7 == 0 .. 6

DivinationHints == {"None", "Quotient"}

\* Default::default() of the argument types
DefaultBFieldElement == 0
DefaultOrd16 == 0
DefaultHint == "None"
DefaultLabel == ""

\* the variants that carry nothing
NullaryNames ==
    {"Pop", "Nop", "Skiz", "Return", "Recurse", "Assert", "Halt", "ReadMem",
     "WriteMem", "Hash", "DivineSibling", "AssertVector", "Add", "Mul", "Invert",
     "Split", "Eq", "Lsb", "XxAdd", "XxMul", "XInvert", "XbMul", "ReadIo", "WriteIo"}

\* AnInstruction<Dest>, with Dest ranging over Dests
AnInstruction(Dests) ==
    {<<n>> : n \in NullaryNames}
        \cup {<<"Push", x>> : x \in BFieldElements}
        \cup {<<"Divine", h>> : h \in DivinationHints}
        \cup {<<"Dup", n>> : n \in Ord16}
        \cup {<<"Swap", n>> : n \in Ord16}
        \cup {<<"Call", d>> : d \in Dests}

Variant(i) == i[1]

\* the variants in declaration order, each with default arguments: what the
\* derived Instruction::iter() yields
InstructionIter(defaultDest) ==
    << <<"Pop">>, <<"Push", DefaultBFieldElement>>, <<"Divine", DefaultHint>>,
       <<"Dup", DefaultOrd16>>, <<"Swap", DefaultOrd16>>,
       <<"Nop">>, <<"Skiz">>, <<"Call", defaultDest>>, <<"Return">>, <<"Recurse">>,
       <<"Assert">>, <<"Halt">>,
       <<"ReadMem">>, <<"WriteMem">>,
       <<"Hash">>, <<"DivineSibling">>, <<"AssertVector">>,
       <<"Add">>, <<"Mul">>, <<"Invert">>, <<"Split">>, <<"Eq">>, <<"Lsb">>,
       <<"XxAdd">>, <<"XxMul">>, <<"XInvert">>, <<"XbMul">>,
       <<"ReadIo">>, <<"WriteIo">> >>

\* AnInstruction::strip
strip(i, defaultDest) ==
    CASE Variant(i) = "Push" -> <<"Push", DefaultBFieldElement>>
      [] Variant(i) = "Divine" -> <<"Divine", DefaultHint>>
      [] Variant(i) = "Dup" -> <<"Dup", DefaultOrd16>>
      [] Variant(i) = "Swap" -> <<"Swap", DefaultOrd16>>
      [] Variant(i) = "Call" -> <<"Call", defaultDest>>
      [] OTHER -> i

\* the match arms of AnInstruction::opcode
OPCODES ==
    ("Pop" :> 2) @@ ("Push" :> 1) @@ ("Divine" :> 4) @@ ("Dup" :> 5) @@ ("Swap" :> 9)
    @@ ("Nop" :> 8) @@ ("Skiz" :> 6) @@ ("Call" :> 13) @@ ("Return" :> 12)
    @@ ("Recurse" :> 16) @@ ("Assert" :> 10) @@ ("Halt" :> 0)
    @@ ("ReadMem" :> 20) @@ ("WriteMem" :> 24)
    @@ ("Hash" :> 28) @@ ("DivineSibling" :> 32) @@ ("AssertVector" :> 36)
    @@ ("Add" :> 14) @@ ("Mul" :> 18) @@ ("Invert" :> 40) @@ ("Split" :> 44)
    @@ ("Eq" :> 22) @@ ("Lsb" :> 48)
    @@ ("XxAdd" :> 52) @@ ("XxMul" :> 56) @@ ("XInvert" :> 60) @@ ("XbMul" :> 26)
    @@ ("ReadIo" :> 64) @@ ("WriteIo" :> 30)

\* opcode with the arm of Pop returning the opcode of Push
opcode_PopAsPush(i) == [OPCODES EXCEPT !["Pop"] = 1][Variant(i)]

\* opcode with the arm of WriteIo returning the opcode of XbMul
opcode_WriteIoAsXbMul(i) == [OPCODES EXCEPT !["WriteIo"] = 26][Variant(i)]

\* AnInstruction::opcode
opcode(i) == OPCODES[Variant(i)]

\* size with Divine counted as a two-word instruction
size_DivineTwoWords(i) ==
    IF Variant(i) \in {"Push", "Dup", "Swap", "Call", "Divine"} THEN 2 ELSE 1

\* AnInstruction::size
size(i) == IF Variant(i) \in {"Push", "Dup", "Swap", "Call"} THEN 2 ELSE 1

\* ib without the mask: (opcode >> bit_number).into()
ib_NoMask(i, arg) == BFieldElementNew(opcode(i) \div Pow2(arg))

\* AnInstruction::ib: ((opcode >> bit_number) & 1).into()
ib(i, arg) == BFieldElementNew((opcode(i) \div Pow2(arg)) % 2)

\* AnInstruction::map_call_address, the closure given as the function f
map_call_address(i, f) ==
    IF Variant(i) = "Call" THEN <<"Call", f[i[2]]>> ELSE i

RECURSIVE FindOpcode(_, _, _)
FindOpcode(iter, k, o) ==
    IF k > Len(iter) THEN [ok |-> FALSE, err |-> "No instruction with opcode exists"]
    ELSE IF opcode(iter[k]) = o THEN [ok |-> TRUE, val |-> iter[k]]
    ELSE FindOpcode(iter, k + 1, o)

\* impl TryFrom<u32> for Instruction
TryFromU32(o) == FindOpcode(InstructionIter(DefaultBFieldElement), 1, o)

---------------------------------------------------------------------------
(* Text *)

(* A source text is modelled after comment removal and split_whitespace, as *)
(* its sequence of tokens.  A token is one of                               *)
(*   <<"word", s>>  the text s, which does not end in a colon,              *)
(*   <<"decl", s>>  the text s followed by a colon,                         *)
(*   <<"lit", n>>   the decimal literal of the integer n.                   *)
Word(s) == <<"word", s>>
Decl(s) == <<"decl", s>>
Lit(n) == <<"lit", n>>

\* the characters of a token
TokenText(tok) ==
    CASE tok[1] = "word" -> tok[2]
      [] tok[1] = "decl" -> tok[2] \o ":"
      [] tok[1] = "lit" -> ToString(tok[2])

\* the mnemonics of the variants that carry nothing
MNEMONICS ==
    ("Pop" :> "pop") @@ ("Nop" :> "nop") @@ ("Skiz" :> "skiz") @@ ("Return" :> "return")
    @@ ("Recurse" :> "recurse") @@ ("Assert" :> "assert") @@ ("Halt" :> "halt")
    @@ ("ReadMem" :> "read_mem") @@ ("WriteMem" :> "write_mem")
    @@ ("Hash" :> "hash") @@ ("DivineSibling" :> "divine_sibling")
    @@ ("AssertVector" :> "assert_vector")
    @@ ("Add" :> "add") @@ ("Mul" :> "mul") @@ ("Invert" :> "invert")
    @@ ("Split" :> "split") @@ ("Eq" :> "eq") @@ ("Lsb" :> "lsb")
    @@ ("XxAdd" :> "xxadd") @@ ("XxMul" :> "xxmul") @@ ("XInvert" :> "xinvert")
    @@ ("XbMul" :> "xbmul") @@ ("ReadIo" :> "read_io") @@ ("WriteIo" :> "write_io")

\* format!("{hint}").to_ascii_lowercase()
HintLowercase(h) == CASE h = "Quotient" -> "quotient"

\* the token of a displayed Call destination: a label name is printed as it
\* is (one word), an address as the decimal of its canonical value
DisplayDest(d, dt) == IF dt = "Label" THEN Word(d) ELSE Lit(d)

\* Display with Swap printed without its argument
Display_SwapNoArg(i, dt) ==
    CASE Variant(i) = "Push" -> <<Word("push"), Lit(i[2])>>
      [] Variant(i) = "Divine" /\ i[2] # "None" -> <<Word("divine_" \o HintLowercase(i[2]))>>
      [] Variant(i) = "Divine" /\ i[2] = "None" -> <<Word("divine")>>
      [] Variant(i) = "Dup" -> <<Word("dup" \o ToString(i[2]))>>
      [] Variant(i) = "Swap" -> <<Word("swap")>>
      [] Variant(i) = "Call" -> <<Word("call"), DisplayDest(i[2], dt)>>
      [] OTHER -> <<Word(MNEMONICS[Variant(i)])>>

\* impl Display for AnInstruction<Dest>, as the tokens of the written text;
\* dt tells how Dest is displayed
Display(i, dt) ==
    CASE Variant(i) = "Push" -> <<Word("push"), Lit(i[2])>>
      [] Variant(i) = "Divine" /\ i[2] # "None" -> <<Word("divine_" \o HintLowercase(i[2]))>>
      [] Variant(i) = "Divine" /\ i[2] = "None" -> <<Word("divine")>>
      [] Variant(i) = "Dup" -> <<Word("dup" \o ToString(i[2]))>>
      [] Variant(i) = "Swap" -> <<Word("swap" \o ToString(i[2]))>>
      [] Variant(i) = "Call" -> <<Word("call"), DisplayDest(i[2], dt)>>
      [] OTHER -> <<Word(MNEMONICS[Variant(i)])>>

\* LabelledInstruction
Instruction(i) == <<"Instruction", i>>
Label(name) == <<"Label", name>>

\* impl Display for LabelledInstruction
DisplayLabelled(li) ==
    IF li[1] = "Label" THEN <<Decl(li[2])>> ELSE Display(li[2], "Label")

---------------------------------------------------------------------------
(* Pseudo-instructions *)

RECURSIVE Repeat(_, _)
Repeat(s, n) == IF n = 0 THEN <<>> ELSE s \o Repeat(s, n - 1)

\* Push(-BFieldElement::new(n))
PushNeg(n) == <<"Push", BFieldNeg(BFieldElementNew(n))>>

\* is_u32 with one extraction round too few
pseudo_instruction_is_u32_OneRoundShort ==
    << <<"Dup", 0>> >>
        \o Repeat(<< <<"Lsb">>, <<"Pop">> >>, LimbBits - 1)
        \o << <<"Push", 0>>, <<"Eq">>, <<"Assert">> >>

\* fn pseudo_instruction_is_u32
pseudo_instruction_is_u32 ==
    << <<"Dup", 0>> >>
        \o Repeat(<< <<"Lsb">>, <<"Pop">> >>, LimbBits)
        \o << <<"Push", 0>>, <<"Eq">>, <<"Assert">> >>

\* fn pseudo_instruction_split_assert
pseudo_instruction_split_assert ==
    << <<"Split">> >>
        \o pseudo_instruction_is_u32
        \o << <<"Swap", 1>> >>
        \o pseudo_instruction_is_u32
        \o << <<"Swap", 1>> >>

\* fn pseudo_instruction_lte
pseudo_instruction_lte ==
    << PushNeg(1), <<"Mul">>, <<"Add">> >>
        \o pseudo_instruction_split_assert
        \o << <<"Push", 0>>, <<"Eq">>, <<"Swap", 1>>, <<"Pop">> >>

\* lt without the increment of the top operand
pseudo_instruction_lt_NoIncrement == pseudo_instruction_lte

\* fn pseudo_instruction_lt
pseudo_instruction_lt ==
    << <<"Push", 1>>, <<"Add">> >> \o pseudo_instruction_lte

\* div without the second swap of the final reordering
pseudo_instruction_div_OneSwap ==
    << <<"Divine", "Quotient">> >>
        \o pseudo_instruction_is_u32
        \o << <<"Dup", 2>>, <<"Dup", 1>>, <<"Mul">>, <<"Dup", 2>>, <<"Swap", 1>>,
              PushNeg(1), <<"Mul">>, <<"Add">>, <<"Dup", 3>>, <<"Dup", 1>> >>
        \o pseudo_instruction_lt
        \o << <<"Assert">>, <<"Swap", 2>>, <<"Pop">>, <<"Pop">> >>

\* fn pseudo_instruction_div
pseudo_instruction_div ==
    << <<"Divine", "Quotient">> >>
        \o pseudo_instruction_is_u32
        \o << <<"Dup", 2>>, <<"Dup", 1>>, <<"Mul">>, <<"Dup", 2>>, <<"Swap", 1>>,
              PushNeg(1), <<"Mul">>, <<"Add">>, <<"Dup", 3>>, <<"Dup", 1>> >>
        \o pseudo_instruction_lt
        \o << <<"Assert">>, <<"Swap", 2>>, <<"Pop">>, <<"Swap", 2>>, <<"Pop">> >>

\* the accumulation loop of and with the weights in ascending order
RECURSIVE AndAccumulate_Ascending(_)
AndAccumulate_Ascending(n) ==
    IF n = 0 THEN <<>>
    ELSE << <<"Swap", 2>>, <<"Mul">>, <<"Push", BFieldElementNew(Pow2(LimbBits - n))>>,
            <<"Mul">>, <<"Add">> >>
         \o AndAccumulate_Ascending(n - 1)

\* the accumulation loop of pseudo_instruction_and: for i in (0..32).rev()
RECURSIVE AndAccumulate(_)
AndAccumulate(n) ==
    IF n = 0 THEN <<>>
    ELSE << <<"Swap", 2>>, <<"Mul">>, <<"Push", BFieldElementNew(Pow2(n - 1))>>,
            <<"Mul">>, <<"Add">> >>
         \o AndAccumulate(n - 1)

\* fn pseudo_instruction_and
pseudo_instruction_and ==
    Repeat(<< <<"Lsb">>, <<"Swap", 2>>, <<"Lsb">>, <<"Swap", 2>> >>, LimbBits)
        \o << <<"Push", 0>>, <<"Eq">>, <<"Assert">> >>
        \o << <<"Push", 0>>, <<"Eq">>, <<"Assert">> >>
        \o << <<"Push", 0>> >>
        \o AndAccumulate(LimbBits)

\* xor that subtracts a & b once
pseudo_instruction_xor_MinusOnce ==
    << <<"Dup", 1>>, <<"Dup", 1>> >>
        \o pseudo_instruction_and
        \o << PushNeg(1), <<"Mul">>, <<"Add">>, <<"Add">> >>

\* fn pseudo_instruction_xor
pseudo_instruction_xor ==
    << <<"Dup", 1>>, <<"Dup", 1>> >>
        \o pseudo_instruction_and
        \o << PushNeg(2), <<"Mul">>, <<"Add">>, <<"Add">> >>

\* the accumulation loop of reverse with the weights in descending order
RECURSIVE ReverseAccumulate_Descending(_)
ReverseAccumulate_Descending(i) ==
    IF i = LimbBits THEN <<>>
    ELSE << <<"Swap", 1>>, <<"Push", BFieldElementNew(Pow2(LimbBits - 1 - i))>>,
            <<"Mul">>, <<"Add">> >>
         \o ReverseAccumulate_Descending(i + 1)

\* the accumulation loop of pseudo_instruction_reverse: for i in 0..32
RECURSIVE ReverseAccumulate(_)
ReverseAccumulate(i) ==
    IF i = LimbBits THEN <<>>
    ELSE << <<"Swap", 1>>, <<"Push", BFieldElementNew(Pow2(i))>>, <<"Mul">>, <<"Add">> >>
         \o ReverseAccumulate(i + 1)

\* fn pseudo_instruction_reverse
pseudo_instruction_reverse ==
    Repeat(<< <<"Lsb">>, <<"Swap", 1>> >>, LimbBits)
        \o << <<"Push", 0>>, <<"Eq">>, <<"Assert">> >>
        \o << <<"Push", 0>> >>
        \o ReverseAccumulate(0)

\* fn pseudo_instruction_eq_vector
pseudo_instruction_eq_vector ==
    << <<"Dup", 0>>, <<"Dup", 5>>, <<"Eq">>,
       <<"Dup", 1>>, <<"Dup", 6>>, <<"Eq">>, <<"Mul">>,
       <<"Dup", 2>>, <<"Dup", 7>>, <<"Eq">>, <<"Mul">>,
       <<"Dup", 3>>, <<"Dup", 8>>, <<"Eq">>, <<"Mul">>,
       <<"Dup", 4>>, <<"Dup", 9>>, <<"Eq">>, <<"Mul">> >>

---------------------------------------------------------------------------
(* The assembler *)

Ok(v) == [ok |-> TRUE, val |-> v]
Err(e) == [ok |-> FALSE, err |-> e]

\* parse_elem without the shift of a negative literal by the characteristic
parse_elem_WithoutShift(tokens) ==
    IF tokens = <<>> THEN Err(<<"UnexpectedEndOfStream">>)
    ELSE LET constant_s == Head(tokens) IN
         IF constant_s[1] # "lit" \/ constant_s[2] < I128_MIN \/ constant_s[2] > I128_MAX
         THEN Err(<<"ParseIntError", TokenText(constant_s)>>)
         ELSE LET constant_n128 == constant_s[2]
              IN  IF constant_n128 < 0 \/ constant_n128 > U64_MAX
                  THEN Err(<<"TryFromIntError">>)
                  ELSE [ok |-> TRUE, val |-> BFieldElementNew(constant_n128),
                        rest |-> Tail(tokens)]

\* fn parse_elem; the result carries the tokens left
parse_elem(tokens) ==
    IF tokens = <<>> THEN Err(<<"UnexpectedEndOfStream">>)
    ELSE LET constant_s == Head(tokens) IN
         IF constant_s[1] # "lit" \/ constant_s[2] < I128_MIN \/ constant_s[2] > I128_MAX
         THEN Err(<<"ParseIntError", TokenText(constant_s)>>)
         ELSE LET parsed_n128 == constant_s[2]
                  constant_n128 ==
                      IF parsed_n128 < 0 THEN parsed_n128 + QUOTIENT ELSE parsed_n128
              IN  IF constant_n128 < 0 \/ constant_n128 > U64_MAX
                  THEN Err(<<"TryFromIntError">>)
                  ELSE [ok |-> TRUE, val |-> BFieldElementNew(constant_n128),
                        rest |-> Tail(tokens)]

\* fn parse_label; the result carries the tokens left
parse_label(tokens) ==
    IF tokens = <<>> THEN Err(<<"UnexpectedEndOfStream">>)
    ELSE [ok |-> TRUE, val |-> TokenText(Head(tokens)), rest |-> Tail(tokens)]

\* the argument-less arms of the match in parse_token
PARSE_NULLARY ==
    ("pop" :> "Pop") @@ ("nop" :> "Nop") @@ ("skiz" :> "Skiz") @@ ("return" :> "Return")
    @@ ("recurse" :> "Recurse") @@ ("assert" :> "Assert") @@ ("halt" :> "Halt")
    @@ ("read_mem" :> "ReadMem") @@ ("write_mem" :> "WriteMem")
    @@ ("hash" :> "Hash") @@ ("divine_sibling" :> "DivineSibling")
    @@ ("assert_vector" :> "AssertVector")
    @@ ("add" :> "Add") @@ ("mul" :> "Mul") @@ ("invert" :> "Invert")
    @@ ("split" :> "Split") @@ ("eq" :> "Eq") @@ ("lsb" :> "Lsb")
    @@ ("xxadd" :> "XxAdd") @@ ("xxmul" :> "XxMul") @@ ("xinvert" :> "XInvert")
    @@ ("xbmul" :> "XbMul") @@ ("read_io" :> "ReadIo") @@ ("write_io" :> "WriteIo")

\* the arms "dup0" .. "dup15"
DUP_ARMS == 0 .. 15
\* the arms "swap1" .. "swap15"
SWAP_ARMS == 1 .. 15

\* the pseudo-instruction arms with a sub that does not swap its operands
PARSE_PSEUDO_SubWithoutSwap ==
    ("neg" :> << PushNeg(1), <<"Mul">> >>)
    @@ ("sub" :> << PushNeg(1), <<"Mul">>, <<"Add">> >>)
    @@ ("lte" :> pseudo_instruction_lte)
    @@ ("lt" :> pseudo_instruction_lt)
    @@ ("and" :> pseudo_instruction_and)
    @@ ("xor" :> pseudo_instruction_xor)
    @@ ("reverse" :> pseudo_instruction_reverse)
    @@ ("div" :> pseudo_instruction_div)
    @@ ("is_u32" :> pseudo_instruction_is_u32)
    @@ ("split_assert" :> pseudo_instruction_split_assert)
    @@ ("eq_vector" :> pseudo_instruction_eq_vector)

\* the pseudo-instruction arms of the match in parse_token
PARSE_PSEUDO ==
    ("neg" :> << PushNeg(1), <<"Mul">> >>)
    @@ ("sub" :> << <<"Swap", 1>>, PushNeg(1), <<"Mul">>, <<"Add">> >>)
    @@ ("lte" :> pseudo_instruction_lte)
    @@ ("lt" :> pseudo_instruction_lt)
    @@ ("and" :> pseudo_instruction_and)
    @@ ("xor" :> pseudo_instruction_xor)
    @@ ("reverse" :> pseudo_instruction_reverse)
    @@ ("div" :> pseudo_instruction_div)
    @@ ("is_u32" :> pseudo_instruction_is_u32)
    @@ ("split_assert" :> pseudo_instruction_split_assert)
    @@ ("eq_vector" :> pseudo_instruction_eq_vector)

\* the instructions of a mnemonic that takes no token after it, or <<>>
MatchMnemonic(s) ==
    IF s = "divine" THEN << <<"Divine", "None">> >>
    ELSE IF s = "divine_quotient" THEN << <<"Divine", "Quotient">> >>
    ELSE IF \E n \in DUP_ARMS : s = "dup" \o ToString(n)
    THEN << <<"Dup", CHOOSE n \in DUP_ARMS : s = "dup" \o ToString(n)>> >>
    ELSE IF \E n \in SWAP_ARMS : s = "swap" \o ToString(n)
    THEN << <<"Swap", CHOOSE n \in SWAP_ARMS : s = "swap" \o ToString(n)>> >>
    ELSE IF s \in DOMAIN PARSE_NULLARY THEN << <<PARSE_NULLARY[s]>> >>
    ELSE IF s \in DOMAIN PARSE_PSEUDO THEN PARSE_PSEUDO[s]
    ELSE <<>>

Labelled(instructions) == [k \in 1 .. Len(instructions) |-> Instruction(instructions[k])]

\* fn parse_token; the result carries the tokens left
parse_token(token, tokens) ==
    IF token[1] = "decl"
    THEN [ok |-> TRUE, val |-> <<Label(token[2])>>, rest |-> tokens]
    ELSE IF token = Word("push")
    THEN LET e == parse_elem(tokens) IN
         IF e.ok
         THEN [ok |-> TRUE, val |-> <<Instruction(<<"Push", e.val>>)>>, rest |-> e.rest]
         ELSE e
    ELSE IF token = Word("call")
    THEN LET l == parse_label(tokens) IN
         IF l.ok
         THEN [ok |-> TRUE, val |-> <<Instruction(<<"Call", l.val>>)>>, rest |-> l.rest]
         ELSE l
    ELSE IF token[1] = "word" /\ MatchMnemonic(token[2]) # <<>>
    THEN [ok |-> TRUE, val |-> Labelled(MatchMnemonic(token[2])), rest |-> tokens]
    ELSE Err(<<"UnknownInstruction", TokenText(token)>>)

\* the loop of parse, returning what it has parsed when a token fails
RECURSIVE ParseTokens_KeepsParsed(_, _)
ParseTokens_KeepsParsed(tokens, instructions) ==
    IF tokens = <<>> THEN Ok(instructions)
    ELSE LET r == parse_token(Head(tokens), Tail(tokens)) IN
         IF r.ok THEN ParseTokens_KeepsParsed(r.rest, instructions \o r.val)
         ELSE Ok(instructions)

\* the loop of parse: while let Some(token) = tokens.next()
RECURSIVE ParseTokens(_, _)
ParseTokens(tokens, instructions) ==
    IF tokens = <<>> THEN Ok(instructions)
    ELSE LET r == parse_token(Head(tokens), Tail(tokens)) IN
         IF r.ok THEN ParseTokens(r.rest, instructions \o r.val) ELSE r

\* all_labels of parse
AllLabels(instructions) ==
    LET IsLabel(li) == li[1] = "Label"
        labels == SelectSeq(instructions, IsLabel)
    IN  [k \in 1 .. Len(labels) |-> labels[k][2]]

\* the loop of parse over all_labels: the duplicate_labels it collects
RECURSIVE DuplicateLabels(_, _, _)
DuplicateLabels(all_labels, seen_labels, duplicate_labels) ==
    IF all_labels = <<>> THEN duplicate_labels
    ELSE LET label == Head(all_labels) IN
         DuplicateLabels(Tail(all_labels), seen_labels \cup {label},
                         IF label \in seen_labels
                         THEN duplicate_labels \cup {label}
                         ELSE duplicate_labels)

\* parse without the check for duplicate labels
parse_NoDuplicateCheck(tokens) == ParseTokens(tokens, <<>>)

\* fn parse, on the tokens of the text
parse(tokens) ==
    LET r == ParseTokens(tokens, <<>>) IN
    IF ~r.ok THEN r
    ELSE LET duplicate_labels == DuplicateLabels(AllLabels(r.val), {}, {}) IN
         IF duplicate_labels # {}
         THEN Err(<<"Duplicate labels", duplicate_labels>>)
         ELSE Ok(r.val)


\* HashMap::<String, usize>::new()
EmptyLabelMap == [n \in {} |-> 0]

\* pass 1 with the instruction pointer advanced by one per instruction
RECURSIVE LabelMapFrom_OnePerInstruction(_, _, _, _)
LabelMapFrom_OnePerInstruction(program, k, instruction_pointer, label_map) ==
    IF k > Len(program) THEN label_map
    ELSE IF program[k][1] = "Label"
    THEN LabelMapFrom_OnePerInstruction(program, k + 1, instruction_pointer,
                                        (program[k][2] :> instruction_pointer) @@ label_map)
    ELSE LabelMapFrom_OnePerInstruction(program, k + 1, instruction_pointer + 1, label_map)

\* pass 1 keeping the address recorded first for a name
RECURSIVE LabelMapFrom_KeepFirst(_, _, _, _)
LabelMapFrom_KeepFirst(program, k, instruction_pointer, label_map) ==
    IF k > Len(program) THEN label_map
    ELSE IF program[k][1] = "Label"
    THEN LabelMapFrom_KeepFirst(program, k + 1, instruction_pointer,
                                label_map @@ (program[k][2] :> instruction_pointer))
    ELSE LabelMapFrom_KeepFirst(program, k + 1, instruction_pointer + size(program[k][2]),
                                label_map)

\* pass 1 of convert_labels: the label_map after the loop over program[k..]
RECURSIVE LabelMapFrom(_, _, _, _)
LabelMapFrom(program, k, instruction_pointer, label_map) ==
    IF k > Len(program) THEN label_map
    ELSE IF program[k][1] = "Label"
    THEN LabelMapFrom(program, k + 1, instruction_pointer,
                      (program[k][2] :> instruction_pointer) @@ label_map)
    ELSE LabelMapFrom(program, k + 1, instruction_pointer + size(program[k][2]),
                      label_map)

\* fn convert_labels_helper; a failed expect() is the error "Label not found"
convert_labels_helper(instruction, label_map) ==
    IF instruction[1] = "Label" THEN Ok(<<>>)
    ELSE LET i == instruction[2]
             absolute_address == [n \in DOMAIN label_map |-> BFieldElementNew(label_map[n])]
         IN  IF Variant(i) = "Call" /\ i[2] \notin DOMAIN label_map
             THEN Err(<<"Label not found", i[2]>>)
             ELSE Ok(<<map_call_address(i, absolute_address)>>)

\* flat_map collecting the later half of the range first
RECURSIVE ConvertRange_Reversed(_, _, _, _)
ConvertRange_Reversed(program, lo, hi, label_map) ==
    IF lo > hi THEN Ok(<<>>)
    ELSE IF lo = hi THEN convert_labels_helper(program[lo], label_map)
    ELSE LET mid == (lo + hi) \div 2
             h == ConvertRange_Reversed(program, lo, mid, label_map)
         IN  IF ~h.ok THEN h
             ELSE LET t == ConvertRange_Reversed(program, mid + 1, hi, label_map) IN
                  IF t.ok THEN Ok(t.val \o h.val) ELSE t

\* flat_map of convert_labels_helper over program[lo..hi], the first failure
\* ending it; the range is split in halves to keep the evaluation shallow
RECURSIVE ConvertRange(_, _, _, _)
ConvertRange(program, lo, hi, label_map) ==
    IF lo > hi THEN Ok(<<>>)
    ELSE IF lo = hi THEN convert_labels_helper(program[lo], label_map)
    ELSE LET mid == (lo + hi) \div 2
             h == ConvertRange(program, lo, mid, label_map)
         IN  IF ~h.ok THEN h
             ELSE LET t == ConvertRange(program, mid + 1, hi, label_map) IN
                  IF t.ok THEN Ok(h.val \o t.val) ELSE t

\* pass 2 of convert_labels: flat_map of convert_labels_helper over program[k..]
ConvertFrom(program, k, label_map) ==
    ConvertRange(program, k, Len(program), label_map)

\* fn convert_labels
convert_labels(program) ==
    ConvertFrom(program, 1, LabelMapFrom(program, 1, 0, EmptyLabelMap))


---------------------------------------------------------------------------
(* Instruction-set runs: one instruction is encoded, then decoded          *)
(* (Instruction) or displayed, parsed back and displayed again             *)
(* (AnInstruction<String>).                                                *)

LabelNames == {"foo", "bar"}

None == <<"None">>

\* instr.opcode(), instr.ib(IB0..IB6) and instr.size()
Encode ==
    /\ ipc = "start"
    /\ opc' = opcode(instr)
    /\ bits' = [b \in Ord7 |-> ib(instr, b)]
    /\ sz' = size(instr)
    /\ ipc' = "encoded"
    /\ UNCHANGED <<destType, instr, decoded, shown, reparsed, redisplayed, asmVars, vmVars, exeVars,
                   lexVars, decVars, runVars>>

\* Instruction::try_from(opc)
Decode ==
    /\ ipc = "encoded"
    /\ destType = "Address"
    /\ decoded' = TryFromU32(opc)
    /\ ipc' = "decoded"
    /\ UNCHANGED <<destType, instr, opc, bits, sz, shown, reparsed, redisplayed, asmVars, vmVars, exeVars,
                   lexVars, decVars, runVars>>

\* format!("{}", instr)
Show ==
    /\ ipc = "encoded"
    /\ destType = "Label"
    /\ shown' = Display(instr, destType)
    /\ ipc' = "shown"
    /\ UNCHANGED <<destType, instr, opc, bits, sz, decoded, reparsed, redisplayed, asmVars, vmVars, exeVars,
                   lexVars, decVars, runVars>>

\* parse(shown)
Reparse ==
    /\ ipc = "shown"
    /\ reparsed' = parse(shown)
    /\ ipc' = "reparsed"
    /\ UNCHANGED <<destType, instr, opc, bits, sz, decoded, shown, redisplayed, asmVars, vmVars, exeVars,
                   lexVars, decVars, runVars>>

RECURSIVE DisplayAll(_)
DisplayAll(program) ==
    IF program = <<>> THEN <<>>
    ELSE DisplayLabelled(Head(program)) \o DisplayAll(Tail(program))

\* format!("{}", li) for every element of the parsed program
Redisplay ==
    /\ ipc = "reparsed"
    /\ reparsed.ok
    /\ redisplayed' = DisplayAll(reparsed.val)
    /\ ipc' = "redisplayed"
    /\ UNCHANGED <<destType, instr, opc, bits, sz, decoded, shown, reparsed, asmVars, vmVars, exeVars,
                   lexVars, decVars, runVars>>


---------------------------------------------------------------------------
(* Assembler runs: a text is parsed and its labels are resolved.           *)

\* the tokens the texts are made of
Vocabulary ==
    {Decl("foo"), Decl("bar"), Word("call"), Word("foo"), Word("pop"), Word("neg"),
     Word("push"), Lit(1)}

RECURSIVE TextsOfLength(_)
TextsOfLength(n) ==
    IF n = 0 THEN {<<>>}
    ELSE {Append(t, tok) : t \in TextsOfLength(n - 1), tok \in Vocabulary}

Texts == UNION {TextsOfLength(n) : n \in 0 .. MaxTokens}

\* the integer literals given to push: every integer from below -2p to above
\* the largest u64, and the ends of the i128 range
Literals ==
    ((0 - 2 * QUOTIENT - 2) .. (U64_MAX + QUOTIENT))
        \cup {I128_MIN - 1, I128_MIN, I128_MIN + 1, I128_MAX - 1, I128_MAX, I128_MAX + 1}

\* the texts `push n`
LiteralTexts == {<<Word("push"), Lit(n)>> : n \in Literals}

\* texts with two declarations at different addresses and a call
LabelTexts ==
    {<<Decl(a), i, Decl(b), Word("call"), Word(c)>> :
        a \in LabelNames, b \in LabelNames, c \in LabelNames,
        i \in {Word("pop"), Word("neg")}}
    \cup {<<Word("call"), Word(c), Decl(a), i, Decl(b)>> :
        a \in LabelNames, b \in LabelNames, c \in LabelNames,
        i \in {Word("pop"), Word("neg")}}

\* parse(text)
Parse ==
    /\ apc = "start"
    /\ parsed' = parse(text)
    /\ apc' = "parsed"
    /\ UNCHANGED <<text, resolved, isaVars, vmVars, exeVars,
                   lexVars, decVars, runVars>>

\* convert_labels(&parsed), for a text that parse accepted
ConvertLabels ==
    /\ apc = "parsed"
    /\ parsed.ok
    /\ resolved' = convert_labels(parsed.val)
    /\ apc' = "resolved"
    /\ UNCHANGED <<text, parsed, isaVars, vmVars, exeVars,
                   lexVars, decVars, runVars>>

\* convert_labels called on a labelled program that did not pass through
\* parse's check of the declarations (the function is public): the program is
\* the one the tokens of text stand for
ConvertLabelsUnchecked ==
    /\ apc = "start"
    /\ ParseTokens(text, <<>>).ok
    /\ resolved' = convert_labels(ParseTokens(text, <<>>).val)
    /\ apc' = "converted"
    /\ UNCHANGED <<text, parsed, isaVars, vmVars, exeVars,
                   lexVars, decVars, runVars>>



---------------------------------------------------------------------------
(* The trace builder *)

\* rescue_prime_regular::NUM_ROUNDS
NUM_ROUNDS == 8
\* rescue_prime_regular::STATE_SIZE
STATE_SIZE == 16
\* hash_table::NUM_ROUND_CONSTANTS, 2 * STATE_SIZE
NUM_ROUND_CONSTANTS == 2 * STATE_SIZE
\* BFIELD_ZERO
BFIELD_ZERO == 0

\* rescue_prime_regular::ROUND_CONSTANTS: NUM_ROUNDS * NUM_ROUND_CONSTANTS
\* field elements, indexed from 0.  The values stand for the permutation's
\* constants: non-zero, and different at neighbouring indices.
ROUND_CONSTANTS ==
    [k \in 0 .. (NUM_ROUNDS * NUM_ROUND_CONSTANTS - 1) |-> 1 + (k % (QUOTIENT - 1))]

(* What the execution-state machine does in one run, given the program and *)
(* the two input streams, is a script: the result of each step in turn.    *)
(*   <<"Err">>                    the step fails                           *)
(*   <<"None">>                   the step succeeds with no output         *)
(*   <<"XlixTrace", s>>           the step invoked the hash co-processor   *)
(*   <<"WriteOutputSymbol", w>>   the step wrote w                         *)
(* The state is complete once the script is used up.                       *)
Seeds == {0, 100}
OutputSymbols == {3, 5}

StepResults ==
    {<<"None">>} \cup {<<"XlixTrace", s>> : s \in Seeds}
        \cup {<<"WriteOutputSymbol", w>> : w \in OutputSymbols}

RECURSIVE OkScriptsOfLength(_)
OkScriptsOfLength(n) ==
    IF n = 0 THEN {<<>>}
    ELSE {Append(t, r) : t \in OkScriptsOfLength(n - 1), r \in StepResults}

\* the scripts: a failing step ends the run
Scripts ==
    UNION {OkScriptsOfLength(n) : n \in 0 .. MaxSteps}
        \cup UNION {{Append(t, <<"Err">>) : t \in OkScriptsOfLength(n)} :
                        n \in 0 .. (MaxSteps - 1)}

\* the scripts of the programs that never halt and never fail
LoopingScripts ==
    UNION {{Append(t, <<"Recurse">>) : t \in OkScriptsOfLength(n)} :
               n \in 0 .. (MaxSteps - 1)}

\* the [[BFieldElement; STATE_SIZE]; NUM_ROUNDS + 1] of an XlixTrace event
HashTraceOf(s) ==
    [row_idx \in 0 .. NUM_ROUNDS |->
        [st_idx \in 0 .. (STATE_SIZE - 1) |->
            BFieldElementNew(s + row_idx * STATE_SIZE + st_idx)]]

\* VMState::new(program)
VMStateNew == [clk |-> 0]

\* the program of the script never halts: after the steps of the script it
\* goes on forever (as `a: call a`, or a `recurse` that never returns)
Loops(program_script) ==
    program_script # <<>> /\ program_script[Len(program_script)] = <<"Recurse">>

\* VMState::is_complete
is_complete(st) == ~Loops(script) /\ st.clk >= Len(script)

\* VMState::step_mut: the state after the step and the step's output
step_mut(st) ==
    LET result == IF st.clk + 1 >= Len(script) THEN script[Len(script)]
                  ELSE script[st.clk + 1]
    IN  IF result = <<"Err">> THEN Err("step failed")
        ELSE IF result = <<"Recurse">>
        THEN [ok |-> TRUE, state |-> [clk |-> st.clk + 1], vm_output |-> <<"None">>]
        ELSE [ok |-> TRUE, state |-> [clk |-> st.clk + 1], vm_output |-> result]

\* VMState::step: the next state as a new snapshot, and the step's output
step(st) == step_mut(st)

\* VMState::to_processor_row
to_processor_row(st) == [CLK |-> st.clk]

\* round constants taken one round too far
rescue_xlix_round_constants_OffByOne(round_number) ==
    IF round_number = 0 \/ round_number = NUM_ROUNDS + 1
    THEN [rc_idx \in 0 .. (NUM_ROUND_CONSTANTS - 1) |-> BFIELD_ZERO]
    ELSE [rc_idx \in 0 .. (NUM_ROUND_CONSTANTS - 1) |->
             ROUND_CONSTANTS[(NUM_ROUND_CONSTANTS * round_number + rc_idx)
                                 % (NUM_ROUNDS * NUM_ROUND_CONSTANTS)]]

\* AlgebraicExecutionTrace::rescue_xlix_round_constants_by_round_number
rescue_xlix_round_constants_by_round_number(round_number) ==
    IF round_number = 0 \/ round_number = NUM_ROUNDS + 1
    THEN [rc_idx \in 0 .. (NUM_ROUND_CONSTANTS - 1) |-> BFIELD_ZERO]
    ELSE IF round_number <= NUM_ROUNDS
    THEN [rc_idx \in 0 .. (NUM_ROUND_CONSTANTS - 1) |->
             ROUND_CONSTANTS[NUM_ROUND_CONSTANTS * (round_number - 1) + rc_idx]]
    ELSE "panic: round does not have round constants"

\* one row of hash_matrix_addendum: the columns ROUNDNUMBER, STATE0.. and
\* CONSTANT0A.. of the row with index row_idx
HashRow(hash_trace, row_idx) ==
    LET round_number == row_idx + 1
        trace_row == hash_trace[row_idx]
        round_constants == rescue_xlix_round_constants_by_round_number(round_number)
    IN  [ROUNDNUMBER |-> BFieldElementNew(row_idx + 1),
         STATE0 |-> [st_idx \in 0 .. (STATE_SIZE - 1) |-> trace_row[st_idx]],
         CONSTANT0A |-> [rc_idx \in 0 .. (NUM_ROUND_CONSTANTS - 1) |->
                          round_constants[rc_idx]]]

\* append_hash_trace with the addendum one row short
append_hash_trace_RowShort(matrix, hash_trace) ==
    matrix \o [k \in 1 .. NUM_ROUNDS |-> HashRow(hash_trace, k - 1)]

\* AlgebraicExecutionTrace::append_hash_trace: the hash_matrix afterwards
append_hash_trace(matrix, hash_trace) ==
    matrix \o [k \in 1 .. (NUM_ROUNDS + 1) |-> HashRow(hash_trace, k - 1)]

\* simulate without the row of the initial state
SimulateBegin_NoInitialRow ==
    /\ vpc = "start"
    /\ state' = VMStateNew
    /\ processor_matrix' = <<>>
    /\ hash_matrix' = <<>>
    /\ stdout' = <<>>
    /\ vpc' = "loop"
    /\ UNCHANGED <<script, err, isaVars, asmVars, exeVars,
                   lexVars, decVars, runVars>>

\* simulate, up to the loop: the default trace, the initial state and its row
SimulateBegin ==
    /\ vpc = "start"
    /\ state' = VMStateNew
    /\ processor_matrix' = <<to_processor_row(VMStateNew)>>
    /\ hash_matrix' = <<>>
    /\ stdout' = <<>>
    /\ vpc' = "loop"
    /\ UNCHANGED <<script, err, isaVars, asmVars, exeVars,
                   lexVars, decVars, runVars>>

\* a turn of the loop that records a row for the failed step as well
SimulateStep_RowOnError ==
    /\ vpc = "loop"
    /\ ~is_complete(state)
    /\ LET r == step_mut(state) IN
       IF ~r.ok
       THEN /\ err' = <<"Some", r.err>>
            /\ vpc' = "returned"
            /\ processor_matrix' = Append(processor_matrix, to_processor_row(state))
            /\ UNCHANGED <<script, state, hash_matrix, stdout, isaVars, asmVars, exeVars,
                           lexVars, decVars, runVars>>
       ELSE /\ state' = r.state
            /\ hash_matrix' =
                   IF r.vm_output[1] = "XlixTrace"
                   THEN append_hash_trace(hash_matrix, HashTraceOf(r.vm_output[2]))
                   ELSE hash_matrix
            /\ stdout' =
                   IF r.vm_output[1] = "WriteOutputSymbol"
                   THEN Append(stdout, r.vm_output[2])
                   ELSE stdout
            /\ processor_matrix' = Append(processor_matrix, to_processor_row(r.state))
            /\ UNCHANGED <<script, vpc, err, isaVars, asmVars, exeVars,
                           lexVars, decVars, runVars>>

\* a turn of the loop that puts a written word in front of the output
SimulateStep_OutputInFront ==
    /\ vpc = "loop"
    /\ ~is_complete(state)
    /\ LET r == step_mut(state) IN
       IF ~r.ok
       THEN /\ err' = <<"Some", r.err>>
            /\ vpc' = "returned"
            /\ UNCHANGED <<script, state, processor_matrix, hash_matrix, stdout, isaVars, asmVars, exeVars,
                           lexVars, decVars, runVars>>
       ELSE /\ state' = r.state
            /\ hash_matrix' =
                   IF r.vm_output[1] = "XlixTrace"
                   THEN append_hash_trace(hash_matrix, HashTraceOf(r.vm_output[2]))
                   ELSE hash_matrix
            /\ stdout' =
                   IF r.vm_output[1] = "WriteOutputSymbol"
                   THEN <<r.vm_output[2]>> \o stdout
                   ELSE stdout
            /\ processor_matrix' = Append(processor_matrix, to_processor_row(r.state))
            /\ UNCHANGED <<script, vpc, err, isaVars, asmVars, exeVars,
                           lexVars, decVars, runVars>>

\* simulate, one turn of the loop: a step, its output, the row of the new state
SimulateStep ==
    /\ vpc = "loop"
    /\ ~is_complete(state)
    /\ LET r == step_mut(state) IN
       IF ~r.ok
       THEN /\ err' = <<"Some", r.err>>
            /\ vpc' = "returned"
            /\ UNCHANGED <<script, state, processor_matrix, hash_matrix, stdout, isaVars, asmVars, exeVars,
                           lexVars, decVars, runVars>>
       ELSE /\ state' = r.state
            /\ hash_matrix' =
                   IF r.vm_output[1] = "XlixTrace"
                   THEN append_hash_trace(hash_matrix, HashTraceOf(r.vm_output[2]))
                   ELSE hash_matrix
            /\ stdout' =
                   IF r.vm_output[1] = "WriteOutputSymbol"
                   THEN Append(stdout, r.vm_output[2])
                   ELSE stdout
            /\ processor_matrix' = Append(processor_matrix, to_processor_row(r.state))
            /\ UNCHANGED <<script, vpc, err, isaVars, asmVars, exeVars,
                           lexVars, decVars, runVars>>

\* leaving the loop whether or not the state is complete
SimulateReturn_Early ==
    /\ vpc = "loop"
    /\ err' = None
    /\ vpc' = "returned"
    /\ UNCHANGED <<script, state, processor_matrix, hash_matrix, stdout, isaVars, asmVars, exeVars,
                   lexVars, decVars, runVars>>

\* simulate, leaving the loop: the state is complete
SimulateReturn ==
    /\ vpc = "loop"
    /\ is_complete(state)
    /\ err' = None
    /\ vpc' = "returned"
    /\ UNCHANGED <<script, state, processor_matrix, hash_matrix, stdout, isaVars, asmVars, exeVars,
                   lexVars, decVars, runVars>>


---------------------------------------------------------------------------
(* Runs of a pseudo-instruction's expansion: the text of one mnemonic is   *)
(* assembled and its instructions are executed on an operational stack.   *)
(* Stacks are written as in the comments of the expansions: the top, st0, *)
(* is the last element.                                                   *)

\* the values of a u32
U32 == 0 .. (Pow2(LimbBits) - 1)

\* st_n of a stack
ST(stack, n) == stack[Len(stack) - n]

\* the stack without its top
Below(stack) == SubSeq(stack, 1, Len(stack) - 1)

\* the number of stack elements an instruction reads
Reads(i) ==
    CASE i[1] \in {"Pop", "Assert", "Lsb", "Split"} -> 1
      [] i[1] \in {"Eq", "Add", "Mul"} -> 2
      [] i[1] \in {"Dup", "Swap"} -> i[2] + 1
      [] OTHER -> 0

\* one step of the processor on the instruction i: the stack after it, or the
\* error; q is what the hint channel supplies
Execute(i, stack, q) ==
    IF Len(stack) < Reads(i) THEN Err("OpStackTooShallow")
    ELSE
    LET n == Len(stack)
        st0 == stack[n]
        st1 == stack[n - 1]
    IN  CASE i[1] = "Pop" -> Ok(Below(stack))
          [] i[1] = "Push" -> Ok(Append(stack, i[2]))
          [] i[1] = "Divine" -> Ok(Append(stack, q))
          [] i[1] = "Dup" -> Ok(Append(stack, ST(stack, i[2])))
          [] i[1] = "Swap" ->
                Ok([k \in 1 .. n |->
                       IF k = n THEN ST(stack, i[2])
                       ELSE IF k = n - i[2] THEN st0
                       ELSE stack[k]])
          [] i[1] = "Assert" ->
                IF st0 = 1 THEN Ok(Below(stack)) ELSE Err("st0 must be 1.")
          [] i[1] = "Split" ->
                Ok(Below(stack) \o <<st0 % Pow2(LimbBits), st0 \div Pow2(LimbBits)>>)
          [] i[1] = "Eq" ->
                Ok(Append(Below(Below(stack)), IF st0 = st1 THEN 1 ELSE 0))
          [] i[1] = "Lsb" -> Ok(Below(stack) \o <<st0 \div 2, st0 % 2>>)
          [] i[1] = "Add" ->
                Ok(Append(Below(Below(stack)), BFieldElementNew(st1 + st0)))
          [] i[1] = "Mul" ->
                Ok(Append(Below(Below(stack)), BFieldElementNew(st1 * st0)))
          [] OTHER -> Err("not an instruction of an expansion")

\* the run of instructions[lo..hi] on a stack: the final stack, or the error,
\* the position of the failing instruction and the stack it failed on; the
\* range is split in halves to keep the evaluation shallow
RECURSIVE RunRange(_, _, _, _, _)
RunRange(instructions, lo, hi, stack, q) ==
    IF lo > hi THEN [ok |-> TRUE, stack |-> stack]
    ELSE IF lo = hi
    THEN LET r == Execute(instructions[lo], stack, q) IN
         IF r.ok THEN [ok |-> TRUE, stack |-> r.val]
         ELSE [ok |-> FALSE, err |-> r.err, at |-> lo, stack |-> stack]
    ELSE LET mid == (lo + hi) \div 2
             h == RunRange(instructions, lo, mid, stack, q)
         IN  IF ~h.ok THEN h
             ELSE RunRange(instructions, mid + 1, hi, h.stack, q)

\* the run of instructions[k..]
RunFrom(instructions, k, stack, q) ==
    RunRange(instructions, k, Len(instructions), stack, q)

\* what lies on the stack below the operands
Rest == <<13, 14>>

\* the hints tried for a division of n by d: the quotient, its neighbour, and
\* values that are no quotient at all
Hints(d, n) ==
    {0, 1, Pow2(LimbBits) - 1, Pow2(LimbBits), QUOTIENT - 1}
        \cup (IF d = 0 THEN {} ELSE {n \div d, (n \div d) + 1})

\* the elements of the vectors given to eq_vector
VectorElements == {1, 2}

\* the operands that sub is run on with every field element as the other one
SubSamples == {0, 1, 7, 19, QUOTIENT - 1}

\* the mnemonics run, each with the operands it is run on
Runs ==
    {[mnemonic |-> m, operands |-> <<a>>, hint |-> 0] :
        m \in {"is_u32", "reverse"}, a \in BFieldElements}
    \cup {[mnemonic |-> m, operands |-> <<a, b>>, hint |-> 0] :
        m \in {"lte", "lt", "and", "xor"}, a \in U32, b \in U32}
    \cup UNION {{[mnemonic |-> "div", operands |-> <<d, n>>, hint |-> q] :
                    q \in Hints(d, n)} : d \in U32, n \in U32}
    \cup {[mnemonic |-> "eq_vector", operands |-> v, hint |-> 0] :
        v \in [1 .. 10 -> VectorElements]}
    \cup {[mnemonic |-> "neg", operands |-> <<x>>, hint |-> 0] : x \in BFieldElements}
    \cup {[mnemonic |-> "sub", operands |-> <<a, b>>, hint |-> 0] :
        a \in BFieldElements, b \in SubSamples}
    \cup {[mnemonic |-> "sub", operands |-> <<a, b>>, hint |-> 0] :
        a \in SubSamples, b \in BFieldElements}

\* Program::from_code(mnemonic)
Assemble ==
    /\ xpc = "start"
    /\ LET p == parse(<<Word(mnemonic)>>) IN
       assembled' = IF p.ok THEN convert_labels(p.val) ELSE p
    /\ xpc' = "assembled"
    /\ UNCHANGED <<mnemonic, operands, hint, op_stack, failure, isaVars, asmVars, vmVars,
                   lexVars, decVars, runVars>>

\* the run of the program, to its end or to the first failing instruction
Run ==
    /\ xpc = "assembled"
    /\ assembled.ok
    /\ LET r == RunFrom(assembled.val, 1, op_stack, hint) IN
       /\ op_stack' = r.stack
       /\ failure' = IF r.ok THEN None ELSE <<"Some", r.err, r.at>>
    /\ xpc' = "done"
    /\ UNCHANGED <<mnemonic, operands, hint, assembled, isaVars, asmVars, vmVars,
                   lexVars, decVars, runVars>>

---------------------------------------------------------------------------
(* Specifications *)

\* an instruction of either destination type, before anything is computed
InitIsa ==
    /\ \/ destType = "Address" /\ instr \in AnInstruction(BFieldElements)
       \/ destType = "Label" /\ instr \in AnInstruction(LabelNames)
    /\ ipc = "start"
    /\ opc = 0
    /\ bits = <<>>
    /\ sz = 0
    /\ decoded = None
    /\ shown = <<>>
    /\ reparsed = None
    /\ redisplayed = <<>>
    /\ text = <<>>
    /\ apc = "idle"
    /\ parsed = None
    /\ resolved = None
    /\ script = <<>>
    /\ vpc = "idle"
    /\ state = VMStateNew
    /\ processor_matrix = <<>>
    /\ hash_matrix = <<>>
    /\ stdout = <<>>
    /\ err = None
    /\ mnemonic = ""
    /\ operands = <<>>
    /\ hint = 0
    /\ assembled = None
    /\ xpc = "idle"
    /\ op_stack = <<>>
    /\ failure = None
    /\ code_with_comments = <<>>
    /\ lpc = "idle"
    /\ code = <<>>
    /\ token_list = <<>>
    /\ decoder = "u32"
    /\ number = 0
    /\ dpc = "idle"
    /\ outcome = None
    /\ rpc = "idle"
    /\ states = <<>>
    /\ run_stdout = <<>>
    /\ run_err = None

\* a text of at most MaxTokens tokens, before it is parsed
InitAsm ==
    /\ destType = "Address"
    /\ instr = <<"Nop">>
    /\ ipc = "idle"
    /\ opc = 0
    /\ bits = <<>>
    /\ sz = 0
    /\ decoded = None
    /\ shown = <<>>
    /\ reparsed = None
    /\ redisplayed = <<>>
    /\ text \in Texts \cup LiteralTexts \cup LabelTexts
    /\ apc = "start"
    /\ parsed = None
    /\ resolved = None
    /\ script = <<>>
    /\ vpc = "idle"
    /\ state = VMStateNew
    /\ processor_matrix = <<>>
    /\ hash_matrix = <<>>
    /\ stdout = <<>>
    /\ err = None
    /\ mnemonic = ""
    /\ operands = <<>>
    /\ hint = 0
    /\ assembled = None
    /\ xpc = "idle"
    /\ op_stack = <<>>
    /\ failure = None
    /\ code_with_comments = <<>>
    /\ lpc = "idle"
    /\ code = <<>>
    /\ token_list = <<>>
    /\ decoder = "u32"
    /\ number = 0
    /\ dpc = "idle"
    /\ outcome = None
    /\ rpc = "idle"
    /\ states = <<>>
    /\ run_stdout = <<>>
    /\ run_err = None

\* a program and its inputs, as a script, before simulate is called
Init ==
    /\ destType = "Address"
    /\ instr = <<"Nop">>
    /\ ipc = "idle"
    /\ opc = 0
    /\ bits = <<>>
    /\ sz = 0
    /\ decoded = None
    /\ shown = <<>>
    /\ reparsed = None
    /\ redisplayed = <<>>
    /\ text = <<>>
    /\ apc = "idle"
    /\ parsed = None
    /\ resolved = None
    /\ script \in Scripts
    /\ vpc = "start"
    /\ state = VMStateNew
    /\ processor_matrix = <<>>
    /\ hash_matrix = <<>>
    /\ stdout = <<>>
    /\ err = None
    /\ mnemonic = ""
    /\ operands = <<>>
    /\ hint = 0
    /\ assembled = None
    /\ xpc = "idle"
    /\ op_stack = <<>>
    /\ failure = None
    /\ code_with_comments = <<>>
    /\ lpc = "idle"
    /\ code = <<>>
    /\ token_list = <<>>
    /\ decoder = "u32"
    /\ number = 0
    /\ dpc = "idle"
    /\ outcome = None
    /\ rpc = "idle"
    /\ states = <<>>
    /\ run_stdout = <<>>
    /\ run_err = None

NextIsa == Encode \/ Decode \/ Show \/ Reparse \/ Redisplay
NextAsm == Parse \/ ConvertLabels \/ ConvertLabelsUnchecked
Next == SimulateBegin \/ SimulateStep \/ SimulateReturn

\* runs of the instruction set
SpecIsa == InitIsa /\ [][NextIsa]_vars
\* runs of the assembler
SpecAsm == InitAsm /\ [][NextAsm]_vars
\* runs of simulate
Spec == Init /\ [][Next]_vars

\* a pseudo-instruction and the stack it is run on
InitExec ==
    /\ destType = "Address"
    /\ instr = <<"Nop">>
    /\ ipc = "idle"
    /\ opc = 0
    /\ bits = <<>>
    /\ sz = 0
    /\ decoded = None
    /\ shown = <<>>
    /\ reparsed = None
    /\ redisplayed = <<>>
    /\ text = <<>>
    /\ apc = "idle"
    /\ parsed = None
    /\ resolved = None
    /\ script = <<>>
    /\ vpc = "idle"
    /\ state = VMStateNew
    /\ processor_matrix = <<>>
    /\ hash_matrix = <<>>
    /\ stdout = <<>>
    /\ err = None
    /\ \E r \in Runs :
           /\ mnemonic = r.mnemonic
           /\ operands = Rest \o r.operands
           /\ hint = r.hint
           /\ op_stack = Rest \o r.operands
    /\ assembled = None
    /\ xpc = "start"
    /\ failure = None
    /\ code_with_comments = <<>>
    /\ lpc = "idle"
    /\ code = <<>>
    /\ token_list = <<>>
    /\ decoder = "u32"
    /\ number = 0
    /\ dpc = "idle"
    /\ outcome = None
    /\ rpc = "idle"
    /\ states = <<>>
    /\ run_stdout = <<>>
    /\ run_err = None

NextExec == Assemble \/ Run

\* runs of the expansions
SpecExec == InitExec /\ [][NextExec]_vars


---------------------------------------------------------------------------
(* The tokenizer of parse: the text is a sequence of characters, the       *)
(* comments are removed from it, and the rest is split at whitespace.      *)

\* the longest text
MaxChars == 5

\* the characters of the texts: a letter, a space, a line end, a slash
Chars == {"a", " ", "\n", "/"}

\* char::is_whitespace, the separator of split_whitespace
is_whitespace(c) == c \in {" ", "\n"}

\* the texts given to parse
RECURSIVE CharTextsOfLength(_)
CharTextsOfLength(n) ==
    IF n = 0 THEN {<<>>}
    ELSE {<<c>> \o s : c \in Chars, s \in CharTextsOfLength(n - 1)}

CharTexts == UNION {CharTextsOfLength(n) : n \in 0 .. MaxChars}

\* where the match of `.*?(?:\n|$)` that starts at s[k] ends: `.` matches
\* every character but the line end, so the match runs to the first line end
\* from k on, which it includes, or to the end of the text
RECURSIVE MatchEnd(_, _)
MatchEnd(s, k) ==
    IF k > Len(s) THEN Len(s)
    ELSE IF s[k] = "\n" THEN k
    ELSE MatchEnd(s, k + 1)

\* remove_comments.replace_all(s[k..], ""): every match of `//.*?(?:\n|$)`,
\* from left to right, is replaced by nothing
RECURSIVE replace_all(_, _)
replace_all(s, k) ==
    IF k > Len(s) THEN <<>>
    ELSE IF k < Len(s) /\ s[k] = "/" /\ s[k + 1] = "/"
    THEN replace_all(s, MatchEnd(s, k + 2) + 1)
    ELSE <<s[k]>> \o replace_all(s, k + 1)

\* code.split_whitespace() from s[k..], token being the characters read
\* since the last whitespace: the non-empty runs without whitespace
RECURSIVE split_whitespace(_, _, _)
split_whitespace(s, k, token) ==
    IF k > Len(s) THEN (IF token = <<>> THEN <<>> ELSE <<token>>)
    ELSE IF is_whitespace(s[k])
    THEN (IF token = <<>> THEN <<>> ELSE <<token>>) \o split_whitespace(s, k + 1, <<>>)
    ELSE split_whitespace(s, k + 1, Append(token, s[k]))

\* let code = remove_comments.replace_all(code_with_comments, "")
RemoveComments ==
    /\ lpc = "start"
    /\ code' = replace_all(code_with_comments, 1)
    /\ lpc' = "stripped"
    /\ UNCHANGED <<code_with_comments, token_list, isaVars, asmVars, vmVars, exeVars,
                   decVars, runVars>>

\* let mut tokens = code.split_whitespace()
SplitWhitespace ==
    /\ lpc = "stripped"
    /\ token_list' = split_whitespace(code, 1, <<>>)
    /\ lpc' = "split"
    /\ UNCHANGED <<code_with_comments, code, isaVars, asmVars, vmVars, exeVars,
                   decVars, runVars>>

InitLex ==
    /\ destType = "Address"
    /\ instr = <<"Nop">>
    /\ ipc = "idle"
    /\ opc = 0
    /\ bits = <<>>
    /\ sz = 0
    /\ decoded = None
    /\ shown = <<>>
    /\ reparsed = None
    /\ redisplayed = <<>>
    /\ text = <<>>
    /\ apc = "idle"
    /\ parsed = None
    /\ resolved = None
    /\ script = <<>>
    /\ vpc = "idle"
    /\ state = VMStateNew
    /\ processor_matrix = <<>>
    /\ hash_matrix = <<>>
    /\ stdout = <<>>
    /\ err = None
    /\ mnemonic = ""
    /\ operands = <<>>
    /\ hint = 0
    /\ assembled = None
    /\ xpc = "idle"
    /\ op_stack = <<>>
    /\ failure = None
    /\ code_with_comments \in CharTexts
    /\ lpc = "start"
    /\ code = <<>>
    /\ token_list = <<>>
    /\ decoder = "u32"
    /\ number = 0
    /\ dpc = "idle"
    /\ outcome = None
    /\ rpc = "idle"
    /\ states = <<>>
    /\ run_stdout = <<>>
    /\ run_err = None

NextLex == RemoveComments \/ SplitWhitespace

\* the tokenizer runs
SpecLex == InitLex /\ [][NextLex]_vars


---------------------------------------------------------------------------
(* The decoders: TryFrom<u32>, TryFrom<u64> and TryFrom<usize> for         *)
(* Instruction.  The opcodes go up to 64, so a u32 is scaled here to       *)
(* WordBits bits, and a u64 and a usize (of a 64-bit target) to            *)
(* 2*WordBits bits.                                                        *)

\* the width of a u32 in the decoder runs
WordBits == 7

\* u32::MAX in the decoder runs
WORD_MAX == Pow2(WordBits) - 1

\* `opcode as u32`: the cast keeps the low word
as_u32(o) == o % Pow2(WordBits)

\* impl TryFrom<u64> for Instruction
TryFromU64(o) == TryFromU32(as_u32(o))

\* impl TryFrom<usize> for Instruction
TryFromUsize(o) == TryFromU32(as_u32(o))

\* Instruction::try_from(number as u32)
DecodeU32 ==
    /\ dpc = "start"
    /\ decoder = "u32"
    /\ outcome' = TryFromU32(number)
    /\ dpc' = "done"
    /\ UNCHANGED <<decoder, number, isaVars, asmVars, vmVars, exeVars,
                   lexVars, runVars>>

\* Instruction::try_from(number as u64)
DecodeU64 ==
    /\ dpc = "start"
    /\ decoder = "u64"
    /\ outcome' = TryFromU64(number)
    /\ dpc' = "done"
    /\ UNCHANGED <<decoder, number, isaVars, asmVars, vmVars, exeVars,
                   lexVars, runVars>>

\* Instruction::try_from(number as usize)
DecodeUsize ==
    /\ dpc = "start"
    /\ decoder = "usize"
    /\ outcome' = TryFromUsize(number)
    /\ dpc' = "done"
    /\ UNCHANGED <<decoder, number, isaVars, asmVars, vmVars, exeVars,
                   lexVars, runVars>>

InitDecode ==
    /\ destType = "Address"
    /\ instr = <<"Nop">>
    /\ ipc = "idle"
    /\ opc = 0
    /\ bits = <<>>
    /\ sz = 0
    /\ decoded = None
    /\ shown = <<>>
    /\ reparsed = None
    /\ redisplayed = <<>>
    /\ text = <<>>
    /\ apc = "idle"
    /\ parsed = None
    /\ resolved = None
    /\ script = <<>>
    /\ vpc = "idle"
    /\ state = VMStateNew
    /\ processor_matrix = <<>>
    /\ hash_matrix = <<>>
    /\ stdout = <<>>
    /\ err = None
    /\ mnemonic = ""
    /\ operands = <<>>
    /\ hint = 0
    /\ assembled = None
    /\ xpc = "idle"
    /\ op_stack = <<>>
    /\ failure = None
    /\ code_with_comments = <<>>
    /\ lpc = "idle"
    /\ code = <<>>
    /\ token_list = <<>>
    /\ decoder \in {"u32", "u64", "usize"}
    /\ number \in 0 .. (IF decoder = "u32" THEN WORD_MAX ELSE Pow2(2 * WordBits) - 1)
    /\ dpc = "start"
    /\ outcome = None
    /\ rpc = "idle"
    /\ states = <<>>
    /\ run_stdout = <<>>
    /\ run_err = None

NextDecode == DecodeU32 \/ DecodeU64 \/ DecodeUsize

\* the decoder runs
SpecDecode == InitDecode /\ [][NextDecode]_vars


---------------------------------------------------------------------------
(* run: the program is stepped from snapshot to snapshot and the states    *)
(* are collected.  A run of simulate is followed by run on the same        *)
(* program and inputs.                                                     *)

\* run, up to the loop: the states hold the initial state
RunBegin ==
    /\ rpc = "start"
    /\ vpc = "returned"
    /\ states' = <<VMStateNew>>
    /\ run_stdout' = <<>>
    /\ rpc' = "loop"
    /\ UNCHANGED <<run_err, isaVars, asmVars, vmVars, exeVars,
                   lexVars, decVars>>

\* a turn of the loop that collects the state of the failed step once more
RunStep_KeepsFailedState ==
    /\ rpc = "loop"
    /\ ~is_complete(states[Len(states)])
    /\ LET current_state == states[Len(states)]
           r == step(current_state)
       IN  IF ~r.ok
           THEN /\ run_err' = <<"Some", r.err>>
                /\ rpc' = "returned"
                /\ states' = Append(states, current_state)
                /\ UNCHANGED <<run_stdout, isaVars, asmVars, vmVars, exeVars,
                               lexVars, decVars>>
           ELSE /\ run_stdout' =
                       IF r.vm_output[1] = "WriteOutputSymbol"
                       THEN Append(run_stdout, r.vm_output[2])
                       ELSE run_stdout
                /\ states' = Append(states, r.state)
                /\ UNCHANGED <<rpc, run_err, isaVars, asmVars, vmVars, exeVars,
                               lexVars, decVars>>

\* run, one turn of the loop: a step, its output, the next state
RunStep ==
    /\ rpc = "loop"
    /\ ~is_complete(states[Len(states)])
    /\ LET current_state == states[Len(states)]
           r == step(current_state)
       IN  IF ~r.ok
           THEN /\ run_err' = <<"Some", r.err>>
                /\ rpc' = "returned"
                /\ states' = states
                /\ UNCHANGED <<run_stdout, isaVars, asmVars, vmVars, exeVars,
                               lexVars, decVars>>
           ELSE /\ run_stdout' =
                       IF r.vm_output[1] = "WriteOutputSymbol"
                       THEN Append(run_stdout, r.vm_output[2])
                       ELSE run_stdout
                /\ states' = Append(states, r.state)
                /\ UNCHANGED <<rpc, run_err, isaVars, asmVars, vmVars, exeVars,
                               lexVars, decVars>>

\* run, leaving the loop: the current state is complete
RunReturn ==
    /\ rpc = "loop"
    /\ is_complete(states[Len(states)])
    /\ run_err' = None
    /\ rpc' = "returned"
    /\ UNCHANGED <<states, run_stdout, isaVars, asmVars, vmVars, exeVars,
                   lexVars, decVars>>

InitRun ==
    /\ destType = "Address"
    /\ instr = <<"Nop">>
    /\ ipc = "idle"
    /\ opc = 0
    /\ bits = <<>>
    /\ sz = 0
    /\ decoded = None
    /\ shown = <<>>
    /\ reparsed = None
    /\ redisplayed = <<>>
    /\ text = <<>>
    /\ apc = "idle"
    /\ parsed = None
    /\ resolved = None
    /\ script \in Scripts
    /\ vpc = "start"
    /\ state = VMStateNew
    /\ processor_matrix = <<>>
    /\ hash_matrix = <<>>
    /\ stdout = <<>>
    /\ err = None
    /\ mnemonic = ""
    /\ operands = <<>>
    /\ hint = 0
    /\ assembled = None
    /\ xpc = "idle"
    /\ op_stack = <<>>
    /\ failure = None
    /\ code_with_comments = <<>>
    /\ lpc = "idle"
    /\ code = <<>>
    /\ token_list = <<>>
    /\ decoder = "u32"
    /\ number = 0
    /\ dpc = "idle"
    /\ outcome = None
    /\ rpc = "start"
    /\ states = <<>>
    /\ run_stdout = <<>>
    /\ run_err = None

NextRun ==
    SimulateBegin \/ SimulateStep \/ SimulateReturn \/ RunBegin \/ RunStep \/ RunReturn

\* simulate, then run, on the same program and inputs
SpecRun == InitRun /\ [][NextRun]_vars

---------------------------------------------------------------------------
(* simulate on every program, those that never halt included.  The loop   *)
(* has no step limit; a run is followed for MaxClock turns, and a run that *)
(* gets there with a state that is not complete and without a failed step  *)
(* goes on in the same way without end.                                    *)

\* the turns a run is followed for, more than any halting script takes
MaxClock == MaxSteps + 2

\* a turn of simulate's loop within the turns followed
SimulateStepFollowed ==
    /\ state.clk < MaxClock
    /\ SimulateStep

InitLive ==
    /\ destType = "Address"
    /\ instr = <<"Nop">>
    /\ ipc = "idle"
    /\ opc = 0
    /\ bits = <<>>
    /\ sz = 0
    /\ decoded = None
    /\ shown = <<>>
    /\ reparsed = None
    /\ redisplayed = <<>>
    /\ text = <<>>
    /\ apc = "idle"
    /\ parsed = None
    /\ resolved = None
    /\ script \in Scripts \cup LoopingScripts
    /\ vpc = "start"
    /\ state = VMStateNew
    /\ processor_matrix = <<>>
    /\ hash_matrix = <<>>
    /\ stdout = <<>>
    /\ err = None
    /\ mnemonic = ""
    /\ operands = <<>>
    /\ hint = 0
    /\ assembled = None
    /\ xpc = "idle"
    /\ op_stack = <<>>
    /\ failure = None
    /\ code_with_comments = <<>>
    /\ lpc = "idle"
    /\ code = <<>>
    /\ token_list = <<>>
    /\ decoder = "u32"
    /\ number = 0
    /\ dpc = "idle"
    /\ outcome = None
    /\ rpc = "idle"
    /\ states = <<>>
    /\ run_stdout = <<>>
    /\ run_err = None

NextLive == SimulateBegin \/ SimulateStepFollowed \/ SimulateReturn

\* simulate runs on: a call that can take a turn or return does so
SpecLive == InitLive /\ [][NextLive]_vars /\ WF_vars(NextLive)



---------------------------------------------------------------------------
(* Properties of the instruction set (checked under SpecIsa) *)

\* Instruction::COUNT
InstructionCOUNT == Len(InstructionIter(DefaultBFieldElement))

\* C1 as stated: for every instruction i, with every argument or hint it can
\* carry, Instruction::try_from(opcode(i)) succeeds and returns i itself.
C1_DecodeReturnsSameInstruction ==
    ipc = "decoded" => decoded.ok /\ decoded.val = instr

\* C1, amended: for every instruction i, Instruction::try_from(opcode(i))
\* succeeds and returns the instruction of i's variant with the default
\* argument, strip(i); that is i itself exactly when i carries no argument or
\* the default one.
C1_DecodeReturnsStripped ==
    ipc = "decoded" =>
        /\ decoded.ok
        /\ decoded.val = strip(instr, DefaultBFieldElement)
        /\ Variant(decoded.val) = Variant(instr)
        /\ (decoded.val = instr) <=>
               \/ Len(instr) = 1
               \/ instr[2] = CASE Variant(instr) = "Divine" -> DefaultHint
                               [] Variant(instr) \in {"Dup", "Swap"} -> DefaultOrd16
                               [] OTHER -> DefaultBFieldElement

C1_Witness ==
    /\ ipc = "decoded"
    /\ instr = <<"Push", 42>>
    /\ decoded.ok
    /\ decoded.val = <<"Push", 0>>

\* C2: opcode is total and injective over the instruction set: instructions of
\* different variants have different opcodes, and there are as many distinct
\* opcodes as variants, 29.
C2_OpcodeInjective ==
    ipc = "encoded" /\ destType = "Address" =>
        /\ \A j \in AnInstruction(BFieldElements) :
               (opcode(j) = opc) <=> (Variant(j) = Variant(instr))
        /\ Cardinality({opcode(j) : j \in AnInstruction(BFieldElements)}) = 29
        /\ Cardinality({Variant(j) : j \in AnInstruction(BFieldElements)}) = 29
        /\ InstructionCOUNT = 29

C2_Witness ==
    /\ ipc = "encoded"
    /\ destType = "Address"
    /\ instr = <<"Pop">>
    /\ opc = 2

RECURSIVE SumBits(_, _)
SumBits(bs, b) == IF b > 6 THEN 0 ELSE bs[b] * Pow2(b) + SumBits(bs, b + 1)

\* C3: for every instruction and every bit index b in 0..6, ib is exactly 0 or
\* 1 and is bit b of the opcode; every opcode lies in [0, 64], and the seven
\* bits reconstruct it: the sum over b of ib(b) * 2^b is the opcode.
C3_InstructionBits ==
    ipc = "encoded" =>
        /\ DOMAIN bits = 0 .. 6
        /\ \A b \in 0 .. 6 : bits[b] \in {0, 1}
        /\ \A b \in 0 .. 6 : (bits[b] = 1) <=> ((opc \div Pow2(b)) % 2 = 1)
        /\ opc \in 0 .. 64
        /\ SumBits(bits, 0) = opc

C3_Witness ==
    /\ ipc = "encoded"
    /\ instr = <<"ReadIo">>
    /\ opc = 64
    /\ bits[6] = 1
    /\ \A b \in 0 .. 5 : bits[b] = 0

\* C4: size is 2 exactly for Push, Dup, Swap and Call, whatever the argument,
\* and 1 for every other instruction, Divine with or without a hint included.
C4_Size ==
    ipc = "encoded" =>
        /\ sz \in {1, 2}
        /\ (sz = 2) <=> (Variant(instr) \in {"Push", "Dup", "Swap", "Call"})
        /\ Variant(instr) = "Divine" => sz = 1

C4_Witness ==
    /\ ipc = "encoded"
    /\ instr = <<"Divine", "Quotient">>
    /\ sz = 1

\* C5 as stated: for every instruction i, parse(display(i)) succeeds and
\* returns exactly [i], and the display of what was parsed is the canonical
\* text again.
C5_DisplayParseRoundTrip ==
    /\ ipc = "reparsed" => reparsed.ok /\ reparsed.val = <<Instruction(instr)>>
    /\ ipc = "redisplayed" => redisplayed = shown

\* C5, amended: for every instruction i other than Swap(ST0), with a Call
\* label that is one token, parse(display(i)) succeeds and returns exactly
\* [i], and the display of what was parsed is the canonical text again;
\* Swap(ST0) is displayed as "swap0", which parse rejects as an
\* UnknownInstruction.
C5_RoundTripExceptSwap0 ==
    /\ ipc = "reparsed" /\ instr # <<"Swap", 0>> =>
           reparsed.ok /\ reparsed.val = <<Instruction(instr)>>
    /\ ipc = "reparsed" /\ instr = <<"Swap", 0>> =>
           ~reparsed.ok /\ reparsed.err = <<"UnknownInstruction", "swap0">>
    /\ ipc = "redisplayed" => redisplayed = shown /\ instr # <<"Swap", 0>>

C5_Witness ==
    /\ ipc = "redisplayed"
    /\ instr = <<"Call", "foo">>
    /\ shown = <<Word("call"), Word("foo")>>
    /\ reparsed.val = <<Instruction(<<"Call", "foo">>)>>
    /\ redisplayed = shown

---------------------------------------------------------------------------
(* Properties of the assembler (checked under SpecAsm) *)

\* some label name is declared more than once in the labelled program
DeclaredTwice(program) ==
    \E j, k \in 1 .. Len(program) :
        j < k /\ program[j][1] = "Label" /\ program[k] = program[j]

\* C6: among the texts whose tokens all parse, parse fails if and only if some
\* label name is declared more than once: such a text yields an error and no
\* instruction list, and a text whose declarations are all distinct is
\* accepted, with the instructions its tokens parse to.
C6_DuplicateLabelsRejected ==
    apc = "parsed" =>
        LET r == ParseTokens(text, <<>>) IN
        r.ok =>
            /\ parsed.ok <=> ~DeclaredTwice(r.val)
            /\ parsed.ok => parsed.val = r.val
            /\ ~parsed.ok =>
                   /\ "val" \notin DOMAIN parsed
                   /\ parsed.err[1] = "Duplicate labels"
                   /\ parsed.err[2] =
                          {r.val[j][2] : j \in {k \in 1 .. Len(r.val) :
                              /\ r.val[k][1] = "Label"
                              /\ \E m \in 1 .. (k - 1) : r.val[m] = r.val[k]}}

C6_Witness ==
    /\ apc = "parsed"
    /\ text = <<Decl("foo"), Word("pop"), Decl("bar"), Decl("foo")>>
    /\ ~parsed.ok
    /\ parsed.err = <<"Duplicate labels", {"foo"}>>

\* the words taken by the instructions among program[1 .. j-1]
RECURSIVE WordsBefore(_, _)
WordsBefore(program, j) ==
    IF j <= 1 THEN 0
    ELSE WordsBefore(program, j - 1)
             + (IF program[j - 1][1] = "Instruction" THEN size(program[j - 1][2]) ELSE 0)

\* the number of instructions among program[1 .. k]
InstructionsUpTo(program, k) ==
    Cardinality({m \in 1 .. k : program[m][1] = "Instruction"})

\* C7: in a labelled program with unique labels, the address convert_labels
\* puts in place of `call L` is the sum of size() of all the instructions
\* before the declaration `L:`, pseudo-instructions expanded and every
\* two-word instruction counted as 2, whether the call comes before or after
\* the declaration.
C7_CallAddressIsWordSum ==
    apc = "resolved" /\ resolved.ok =>
        \A k \in 1 .. Len(parsed.val) :
            parsed.val[k][1] = "Instruction" /\ Variant(parsed.val[k][2]) = "Call" =>
                \E j \in 1 .. Len(parsed.val) :
                    /\ parsed.val[j] = Label(parsed.val[k][2][2])
                    /\ resolved.val[InstructionsUpTo(parsed.val, k)]
                           = <<"Call", WordsBefore(parsed.val, j)>>

C7_Witness ==
    /\ apc = "resolved"
    /\ text = <<Word("call"), Word("foo"), Word("neg"), Decl("foo")>>
    /\ resolved.ok
    /\ resolved.val = << <<"Call", 5>>, <<"Push", QUOTIENT - 1>>, <<"Mul">> >>

C7_WitnessBackward ==
    /\ apc = "resolved"
    /\ text = <<Word("pop"), Decl("foo"), Word("call"), Word("foo")>>
    /\ resolved.ok
    /\ resolved.val = << <<"Pop">>, <<"Call", 1>> >>

---------------------------------------------------------------------------
(* Properties of the trace builder (checked under Spec) *)

\* the XlixTrace events among the first n steps of the run, in order
HashEvents(n) ==
    LET IsXlix(r) == r[1] = "XlixTrace"
    IN  SelectSeq(SubSeq(script, 1, n), IsXlix)

\* C8: simulate starts the processor trace with exactly one row, for the state
\* before any step, and appends exactly one row after each successful step: a
\* run that takes N steps before completing returns exactly N + 1 rows, the
\* k-th being the row of the state after k - 1 steps (four steps without
\* output give 5 rows, an empty output and no error).
C8_ProcessorRows ==
    /\ vpc \in {"loop", "returned"} =>
           /\ Len(processor_matrix) = state.clk + 1
           /\ \A k \in 1 .. Len(processor_matrix) :
                  processor_matrix[k] = to_processor_row([clk |-> k - 1])
    /\ vpc = "returned" /\ err = None =>
           /\ state.clk = Len(script)
           /\ Len(processor_matrix) = Len(script) + 1

C8_Witness ==
    /\ vpc = "returned"
    /\ script = << <<"None">>, <<"None">>, <<"None">>, <<"None">> >>
    /\ Len(processor_matrix) = 5
    /\ stdout = <<>>
    /\ err = None

\* C9: each hash co-processor event appends exactly NUM_ROUNDS + 1 rows to the
\* hash trace and no other step changes it: at every point of a run the hash
\* trace has (NUM_ROUNDS + 1) * h rows, h being the number of hash events so
\* far, and its blocks are those of the events, in the order of the events.
C9_HashBlocks ==
    vpc \in {"loop", "returned"} =>
        LET events == HashEvents(state.clk)
            h == Len(events)
        IN  /\ Len(hash_matrix) = (NUM_ROUNDS + 1) * h
            /\ \A j \in 1 .. h : \A row_idx \in 0 .. NUM_ROUNDS :
                   hash_matrix[(j - 1) * (NUM_ROUNDS + 1) + row_idx + 1].STATE0
                       = HashTraceOf(events[j][2])[row_idx]

C9_Witness ==
    /\ vpc = "returned"
    /\ script = << <<"XlixTrace", 0>>, <<"None">>, <<"XlixTrace", 100>>,
                   <<"WriteOutputSymbol", 3>> >>
    /\ Len(hash_matrix) = 2 * (NUM_ROUNDS + 1)
    /\ hash_matrix[1].STATE0 = HashTraceOf(0)[0]
    /\ hash_matrix[NUM_ROUNDS + 2].STATE0 = HashTraceOf(100)[0]

\* the round numbers of the rows that the j-th of h hash events appended
RoundNumbersOfBlock(j, h) ==
    LET n == Len(hash_matrix) \div h
    IN  [k \in 1 .. n |-> hash_matrix[(j - 1) * n + k].ROUNDNUMBER]

\* the round constants a row with round number r is said to carry
ExpectedConstants(r) ==
    [rc_idx \in 0 .. (NUM_ROUND_CONSTANTS - 1) |->
        IF r = 0 \/ r = NUM_ROUNDS + 1 THEN 0
        ELSE ROUND_CONSTANTS[NUM_ROUND_CONSTANTS * (r - 1) + rc_idx]]

\* C10 as stated: each appended hash block has one row for every round number
\* 0..NUM_ROUNDS plus a terminal row with round number NUM_ROUNDS + 1, each
\* row carrying its round number and that round's constants.
C10_BlockRoundsFromZero ==
    vpc \in {"loop", "returned"} =>
        LET h == Len(HashEvents(state.clk)) IN
        \A j \in 1 .. h :
            /\ RoundNumbersOfBlock(j, h) = [k \in 1 .. (NUM_ROUNDS + 2) |-> k - 1]
            /\ \A k \in 1 .. (Len(hash_matrix) \div h) :
                   hash_matrix[(j - 1) * (Len(hash_matrix) \div h) + k].CONSTANT0A
                       = ExpectedConstants(k - 1)

\* C10, amended: each appended hash block consists of NUM_ROUNDS + 1 rows with
\* the round numbers 1..NUM_ROUNDS + 1 in order, and no row with round number
\* 0; the row with round number r carries r, the event's permutation state
\* with index r - 1, and that round's constants: ROUND_CONSTANTS[K*(r-1) ..
\* K*r) for r in 1..NUM_ROUNDS, all zero for the terminal round number
\* NUM_ROUNDS + 1.
C10_BlockRoundsFromOne ==
    vpc \in {"loop", "returned"} =>
        LET events == HashEvents(state.clk)
            h == Len(events)
        IN  /\ \A j \in 1 .. h :
                   /\ RoundNumbersOfBlock(j, h) = [k \in 1 .. (NUM_ROUNDS + 1) |-> k]
                   /\ \A r \in 1 .. (NUM_ROUNDS + 1) :
                          LET row == hash_matrix[(j - 1) * (NUM_ROUNDS + 1) + r] IN
                          /\ row.ROUNDNUMBER = r
                          /\ row.STATE0 = HashTraceOf(events[j][2])[r - 1]
                          /\ row.CONSTANT0A = ExpectedConstants(r)
            /\ \A k \in 1 .. Len(hash_matrix) : hash_matrix[k].ROUNDNUMBER # 0

C10_Witness ==
    /\ vpc = "returned"
    /\ script = << <<"XlixTrace", 100>> >>
    /\ Len(hash_matrix) = NUM_ROUNDS + 1
    /\ hash_matrix[1].ROUNDNUMBER = 1
    /\ hash_matrix[1].CONSTANT0A[0] = ROUND_CONSTANTS[0]
    /\ hash_matrix[NUM_ROUNDS].CONSTANT0A[NUM_ROUND_CONSTANTS - 1]
           = ROUND_CONSTANTS[NUM_ROUNDS * NUM_ROUND_CONSTANTS - 1]
    /\ hash_matrix[NUM_ROUNDS + 1].ROUNDNUMBER = NUM_ROUNDS + 1
    /\ \A rc_idx \in 0 .. (NUM_ROUND_CONSTANTS - 1) :
           hash_matrix[NUM_ROUNDS + 1].CONSTANT0A[rc_idx] = 0


\* the words of the WriteOutputSymbol events among the first n steps, in order
OutputsOf(n) ==
    LET IsWrite(r) == r[1] = "WriteOutputSymbol"
        events == SelectSeq(SubSeq(script, 1, n), IsWrite)
    IN  [j \in 1 .. Len(events) |-> events[j][2]]

\* C11: when the step fails after k successful steps, simulate returns at once
\* with Some(error) and with everything recorded so far and nothing more: a
\* processor trace of exactly k + 1 rows (those of the states after 0..k
\* steps), the hash blocks of the hash events among those k steps, and the
\* output of those k steps; the failing turn itself changes no row and no
\* output.
C11_ErrorReturnsPartialTrace ==
    /\ [](vpc = "returned" /\ err # None =>
            LET k == Len(script) - 1
                events == HashEvents(k)
            IN  /\ script[k + 1] = <<"Err">>
                /\ err[1] = "Some"
                /\ state.clk = k
                /\ processor_matrix = [j \in 1 .. (k + 1) |-> to_processor_row([clk |-> j - 1])]
                /\ Len(hash_matrix) = (NUM_ROUNDS + 1) * Len(events)
                /\ \A j \in 1 .. Len(events) : \A row_idx \in 0 .. NUM_ROUNDS :
                       hash_matrix[(j - 1) * (NUM_ROUNDS + 1) + row_idx + 1].STATE0
                           = HashTraceOf(events[j][2])[row_idx]
                /\ stdout = OutputsOf(k))
    /\ [][err' # None =>
            (/\ processor_matrix' = processor_matrix
             /\ hash_matrix' = hash_matrix
             /\ stdout' = stdout)]_vars

C11_Witness ==
    /\ vpc = "returned"
    /\ script = << <<"XlixTrace", 100>>, <<"WriteOutputSymbol", 5>>, <<"Err">> >>
    /\ err = <<"Some", "step failed">>
    /\ Len(processor_matrix) = 3
    /\ Len(hash_matrix) = NUM_ROUNDS + 1
    /\ stdout = <<5>>

\* s is an initial part of t
IsPrefix(s, t) == Len(s) <= Len(t) /\ SubSeq(t, 1, Len(s)) = s

\* C12: the output stream is exactly the sequence of the words of the
\* WriteOutputSymbol events, in the order the steps emitted them, and the rows
\* of both traces are in execution order: during a run rows and output words
\* are only ever appended at the end, never reordered, dropped or overwritten.
C12_AppendOnlyInOrder ==
    /\ [](vpc \in {"loop", "returned"} => stdout = OutputsOf(state.clk))
    /\ [][(vpc \in {"loop", "returned"}) =>
            (/\ IsPrefix(processor_matrix, processor_matrix')
             /\ IsPrefix(hash_matrix, hash_matrix')
             /\ IsPrefix(stdout, stdout'))]_vars

C12_Witness ==
    /\ vpc = "returned"
    /\ script = << <<"WriteOutputSymbol", 5>>, <<"XlixTrace", 0>>,
                   <<"WriteOutputSymbol", 3>>, <<"WriteOutputSymbol", 5>> >>
    /\ stdout = <<5, 3, 5>>
    /\ err = None
    /\ Len(processor_matrix) = 5


---------------------------------------------------------------------------
(* Properties of the expansions (checked under SpecExec) *)

\* the operand that lies at st_n before the run
Operand(n) == ST(operands, n)

\* the bitwise AND, the bitwise XOR and the bit reversal of n-bit numbers
RECURSIVE BitAnd(_, _, _)
BitAnd(a, b, n) ==
    IF n = 0 THEN 0
    ELSE (a % 2) * (b % 2) + 2 * BitAnd(a \div 2, b \div 2, n - 1)

RECURSIVE BitXor(_, _, _)
BitXor(a, b, n) ==
    IF n = 0 THEN 0
    ELSE ((a + b) % 2) + 2 * BitXor(a \div 2, b \div 2, n - 1)

RECURSIVE ReverseBits(_, _)
ReverseBits(a, n) ==
    IF n = 0 THEN 0
    ELSE (a % 2) * Pow2(n - 1) + ReverseBits(a \div 2, n - 1)

\* C13: the div expansion is sound against the hint: for all u32 d (below)
\* and n (top) and every value q the hint supplies, a run that reaches its end
\* without a failed assertion leaves q and r with d*q + r = n and 0 <= r < d
\* as integers; with any other hint an assertion fails.
C13_DivSoundAgainstHint ==
    xpc = "done" /\ mnemonic = "div" =>
        LET d == Operand(1)
            n == Operand(0)
        IN  IF failure = None
            THEN LET q == ST(op_stack, 1)
                     r == ST(op_stack, 0)
                 IN  /\ q = hint
                     /\ d * q + r = n
                     /\ 0 <= r /\ r < d
            ELSE failure[2] = "st0 must be 1."

\* C14: for all u32 d # 0 (below) and n (top), the div expansion run with the
\* hint q = n div d reaches its end without a failed assertion and replaces
\* d n by q r, with r = n mod d on top and q below it; the rest of the stack is
\* unchanged.
C14_DivWithQuotientHint ==
    xpc = "done" /\ mnemonic = "div" /\ Operand(1) # 0
            /\ hint = Operand(0) \div Operand(1) =>
        /\ failure = None
        /\ op_stack = Rest \o <<Operand(0) \div Operand(1), Operand(0) % Operand(1)>>

C14_Witness ==
    /\ xpc = "done"
    /\ mnemonic = "div"
    /\ operands = Rest \o <<2, 3>>
    /\ hint = 1
    /\ failure = None
    /\ op_stack = Rest \o <<1, 1>>

\* the arguments of the Push instructions of a list of instructions, in order
PushedBy(instructions) ==
    LET IsPush(i) == i[1] = "Push"
        pushes == SelectSeq(instructions, IsPush)
    IN  [k \in 1 .. Len(pushes) |-> pushes[k][2]]

\* the number of instructions of a variant in a list of instructions
CountOf(variant, instructions) ==
    LET Is(i) == i[1] = variant IN Len(SelectSeq(instructions, Is))

\* C15: for all u32 a and b, the and expansion replaces the two operands on
\* top of the stack by the single value a & b: the stack is one shorter and the
\* rest of it is unchanged. The expansion has one bit-extraction round per bit
\* and operand and one resummation round per bit, with the weights from the
\* highest power of two down to 2^0.
C15_AndIsBitwiseAnd ==
    /\ xpc = "done" /\ mnemonic = "and" =>
           /\ failure = None
           /\ op_stack = Rest \o <<BitAnd(Operand(1), Operand(0), LimbBits)>>
           /\ Len(op_stack) = Len(operands) - 1
    /\ xpc # "start" /\ mnemonic = "and" =>
           /\ assembled.ok
           /\ CountOf("Lsb", assembled.val) = 2 * LimbBits
           /\ PushedBy(assembled.val)
                  = <<0, 0, 0>> \o [k \in 1 .. LimbBits |-> Pow2(LimbBits - k)]

C15_Witness ==
    /\ xpc = "done"
    /\ mnemonic = "and"
    /\ operands = Rest \o <<5, 3>>
    /\ failure = None
    /\ op_stack = Rest \o <<1>>

\* C16: for all u32 a and b, the xor expansion replaces the two operands on
\* top of the stack by the single value a ^ b, which is a + b - 2*(a & b); the
\* rest of the stack is unchanged.
C16_XorIsBitwiseXor ==
    xpc = "done" /\ mnemonic = "xor" =>
        /\ failure = None
        /\ op_stack = Rest \o <<BitXor(Operand(1), Operand(0), LimbBits)>>
        /\ ST(op_stack, 0)
               = Operand(1) + Operand(0) - 2 * BitAnd(Operand(1), Operand(0), LimbBits)

C16_Witness ==
    /\ xpc = "done"
    /\ mnemonic = "xor"
    /\ operands = Rest \o <<7, 6>>
    /\ failure = None
    /\ op_stack = Rest \o <<1>>

\* C17: for every u32 a, the reverse expansion replaces a on top of the stack
\* by the bit reversal of a (bit k becomes bit width-1-k), the rest of the
\* stack unchanged; for a field element a that is no u32 the expansion fails
\* its assertion.
C17_ReverseIsBitReversal ==
    xpc = "done" /\ mnemonic = "reverse" =>
        IF Operand(0) \in U32
        THEN /\ failure = None
             /\ op_stack = Rest \o <<ReverseBits(Operand(0), LimbBits)>>
        ELSE /\ failure # None
             /\ failure[2] = "st0 must be 1."
             /\ assembled.val[failure[3]] = <<"Assert">>

C17_Witness ==
    /\ xpc = "done"
    /\ mnemonic = "reverse"
    /\ operands = Rest \o <<Pow2(LimbBits - 1) + 2>>
    /\ failure = None
    /\ op_stack = Rest \o <<Pow2(LimbBits - 2) + 1>>

\* C18: for all u32 a (below) and b (top), the lte expansion replaces a b by 1
\* if b <= a and by 0 otherwise, and the lt expansion replaces a b by 1 if
\* b < a and by 0 otherwise, the boundary cases a = b, b the largest u32 and
\* a = 0 included; the result is always exactly 0 or 1.
C18_ComparisonsAreBooleans ==
    /\ xpc = "done" /\ mnemonic = "lte" =>
           /\ failure = None
           /\ op_stack = Rest \o <<IF Operand(0) <= Operand(1) THEN 1 ELSE 0>>
    /\ xpc = "done" /\ mnemonic = "lt" =>
           /\ failure = None
           /\ op_stack = Rest \o <<IF Operand(0) < Operand(1) THEN 1 ELSE 0>>
    /\ xpc = "done" /\ mnemonic \in {"lte", "lt"} => ST(op_stack, 0) \in {0, 1}

C18_Witness ==
    /\ xpc = "done"
    /\ mnemonic = "lt"
    /\ operands = Rest \o <<0, Pow2(LimbBits) - 1>>
    /\ failure = None
    /\ op_stack = Rest \o <<0>>

\* C19: for any two 5-element vectors held in st0..st4 and st5..st9, the
\* eq_vector expansion produces a single boolean that is 1 if and only if the
\* vectors are pointwise equal (st_i = st_{i+5} for every i in 0..4) and 0
\* otherwise: the product of the five pairwise equalities.
C19_EqVectorIsPointwiseEquality ==
    xpc = "done" /\ mnemonic = "eq_vector" =>
        /\ failure = None
        /\ ST(op_stack, 0) =
               IF \A i \in 0 .. 4 : Operand(i) = Operand(i + 5) THEN 1 ELSE 0

\* C20: for every field element a on top of the stack, the is_u32 expansion
\* reaches its end without failure if and only if a is a u32, and then the
\* whole stack, a included, is what it was before; for any other a the final
\* assert fails.
C20_IsU32AssertsRange ==
    xpc = "done" /\ mnemonic = "is_u32" =>
        /\ failure = None <=> Operand(0) \in U32
        /\ failure = None => op_stack = operands
        /\ failure # None =>
               /\ failure[2] = "st0 must be 1."
               /\ failure[3] = Len(assembled.val)
               /\ assembled.val[failure[3]] = <<"Assert">>

C20_Witness ==
    /\ xpc = "done"
    /\ mnemonic = "is_u32"
    /\ operands = Rest \o <<Pow2(LimbBits)>>
    /\ failure = <<"Some", "st0 must be 1.", 2 * LimbBits + 4>>


\* C21: for all field elements a (below) and b (top), the sub expansion
\* (swap1, push -1, mul, add) replaces a b by the single value b - a modulo the
\* field characteristic, and neg (push -1, mul) replaces x by -x; push 7
\* push 19 sub leaves 12.
C21_SubAndNeg ==
    /\ xpc = "done" /\ mnemonic = "sub" =>
           /\ assembled.val = << <<"Swap", 1>>, <<"Push", QUOTIENT - 1>>, <<"Mul">>, <<"Add">> >>
           /\ failure = None
           /\ op_stack = Rest \o <<(Operand(0) - Operand(1)) % QUOTIENT>>
    /\ xpc = "done" /\ mnemonic = "neg" =>
           /\ assembled.val = << <<"Push", QUOTIENT - 1>>, <<"Mul">> >>
           /\ failure = None
           /\ op_stack = Rest \o <<(0 - Operand(0)) % QUOTIENT>>

C21_Witness ==
    /\ xpc = "done"
    /\ mnemonic = "sub"
    /\ operands = Rest \o <<7, 19>>
    /\ failure = None
    /\ op_stack = Rest \o <<12>>


---------------------------------------------------------------------------
(* Further properties of the assembler (checked under SpecAsm) *)

\* the mnemonics of the texts: those of the instructions without argument and
\* of the pseudo-instructions
IsMnemonic(s) ==
    \/ \E v \in DOMAIN MNEMONICS : MNEMONICS[v] = s
    \/ s \in {"neg", "sub", "lte", "lt", "and", "xor", "reverse", "div", "is_u32",
              "split_assert", "eq_vector", "divine", "divine_quotient"}

\* what is wrong with the literal n as the argument of push, if anything
LiteralError(n) ==
    IF n < I128_MIN \/ n > I128_MAX THEN <<"ParseIntError", ToString(n)>>
    ELSE IF n < 0 - QUOTIENT \/ n > U64_MAX THEN <<"TryFromIntError">>
    ELSE None

\* the error of the first malformed place of tokens[k..], read from left to
\* right, or None
RECURSIVE FirstError(_, _)
FirstError(tokens, k) ==
    IF k > Len(tokens) THEN None
    ELSE IF tokens[k][1] = "decl" THEN FirstError(tokens, k + 1)
    ELSE IF tokens[k] = Word("push")
    THEN IF k = Len(tokens) THEN <<"UnexpectedEndOfStream">>
         ELSE IF tokens[k + 1][1] # "lit"
         THEN <<"ParseIntError", TokenText(tokens[k + 1])>>
         ELSE IF LiteralError(tokens[k + 1][2]) # None
         THEN LiteralError(tokens[k + 1][2])
         ELSE FirstError(tokens, k + 2)
    ELSE IF tokens[k] = Word("call")
    THEN IF k = Len(tokens) THEN <<"UnexpectedEndOfStream">>
         ELSE FirstError(tokens, k + 2)
    ELSE IF tokens[k][1] = "word" /\ IsMnemonic(tokens[k][2])
    THEN FirstError(tokens, k + 1)
    ELSE <<"UnknownInstruction", TokenText(tokens[k])>>

\* C22: parse returns an error value and no instruction list whenever the text
\* is malformed: a token that is neither a label declaration nor a known
\* mnemonic gives UnknownInstruction with that token, push or call as the last
\* token gives UnexpectedEndOfStream, a push argument that is no integer
\* literal gives a parse error; the instructions parsed before the bad token
\* are not returned. A text without such a place fails only for duplicate
\* labels.
C22_MalformedTextIsAnError ==
    apc = "parsed" =>
        IF FirstError(text, 1) # None
        THEN /\ ~parsed.ok
             /\ parsed.err = FirstError(text, 1)
             /\ DOMAIN parsed = {"ok", "err"}
        ELSE parsed.ok \/ parsed.err[1] = "Duplicate labels"

C22_Witness ==
    /\ apc = "parsed"
    /\ text = <<Word("pop"), Word("neg"), Word("foo"), Word("push")>>
    /\ parsed = [ok |-> FALSE, err |-> <<"UnknownInstruction", "foo">>]

\* C23 as stated: for every signed integer literal n given as the argument of
\* push, parsing succeeds and the pushed field element is n mod p, every
\* negative n of any magnitude being reduced modulo p.
C23_EveryLiteralIsReduced ==
    apc = "parsed" /\ text \in LiteralTexts =>
        /\ parsed.ok
        /\ parsed.val = <<Instruction(<<"Push", text[2][2] % QUOTIENT>>)>>

\* C23, amended: for every integer literal n with -p <= n <= u64::MAX given as
\* the argument of push, parsing succeeds and the pushed field element is
\* n mod p (a negative n is shifted by p once); a literal below -p or above
\* u64::MAX is rejected with an error value (a failed conversion to u64, or a
\* failed parse outside the i128 range) and nothing is pushed.
C23_LiteralInRangeIsReduced ==
    apc = "parsed" /\ text \in LiteralTexts =>
        LET n == text[2][2] IN
        IF 0 - QUOTIENT <= n /\ n <= U64_MAX
        THEN /\ parsed.ok
             /\ parsed.val = <<Instruction(<<"Push", n % QUOTIENT>>)>>
        ELSE /\ ~parsed.ok
             /\ DOMAIN parsed = {"ok", "err"}
             /\ parsed.err = IF I128_MIN <= n /\ n <= I128_MAX
                             THEN <<"TryFromIntError">>
                             ELSE <<"ParseIntError", ToString(n)>>

C23_Witness ==
    /\ apc = "parsed"
    /\ text = <<Word("push"), Lit(0 - QUOTIENT)>>
    /\ parsed.ok
    /\ parsed.val = <<Instruction(<<"Push", 0>>)>>


\* the labelled program given to convert_labels
Given ==
    IF apc = "resolved" THEN parsed.val ELSE ParseTokens(text, <<>>).val

\* the place of the last declaration of name in program, 0 if there is none
LastDeclaration(program, name) ==
    LET D == {j \in 1 .. Len(program) : program[j] = Label(name)}
    IN  IF D = {} THEN 0 ELSE CHOOSE j \in D : \A m \in D : m <= j

\* the label names that program calls
Called(program) ==
    {program[k][2][2] : k \in {m \in 1 .. Len(program) :
        program[m][1] = "Instruction" /\ Variant(program[m][2]) = "Call"}}

\* C26 as stated: given a labelled program in which a name is declared twice,
\* convert_labels reports an error: it produces no resolved program and binds
\* no call to either address.
C26_ResolutionRejectsDuplicates ==
    apc = "converted" /\ DeclaredTwice(Given) => ~resolved.ok

\* C26, amended: pass 1 of convert_labels reports no error when it meets a
\* declaration of a name that is already recorded; the later declaration
\* replaces the recorded address. Given a labelled program in which a name is
\* declared twice (and every called name is declared), resolution produces a
\* resolved program in which every call is bound to the address of the last
\* declaration of its name. The duplicate is reported earlier, by parse, so a
\* text with a duplicate declaration never reaches resolution through parse.
C26_LastDeclarationWins ==
    /\ apc = "converted" /\ DeclaredTwice(Given) =>
           /\ resolved.ok <=> \A n \in Called(Given) : LastDeclaration(Given, n) # 0
           /\ resolved.ok =>
                  \A k \in 1 .. Len(Given) :
                      Given[k][1] = "Instruction" /\ Variant(Given[k][2]) = "Call" =>
                          resolved.val[InstructionsUpTo(Given, k)]
                              = <<"Call", WordsBefore(Given,
                                              LastDeclaration(Given, Given[k][2][2]))>>
    /\ apc = "parsed" /\ ParseTokens(text, <<>>).ok
           /\ DeclaredTwice(ParseTokens(text, <<>>).val) => ~parsed.ok
    /\ apc = "resolved" => ~DeclaredTwice(Given)

C26_Witness ==
    /\ apc = "converted"
    /\ text = <<Decl("foo"), Word("pop"), Decl("foo"), Word("call"), Word("foo")>>
    /\ resolved.ok
    /\ resolved.val = << <<"Pop">>, <<"Call", 1>> >>

\* C27: for every text that parse accepts, label resolution succeeds: every
\* name used as a call destination has an address recorded in pass 1, and the
\* "Label not found" path of convert_labels is not taken.
C27_AcceptedTextResolves ==
    apc = "resolved" => resolved.ok

\* C28: the program convert_labels returns consists of exactly the
\* instruction elements of the labelled program, in their order: label
\* elements are dropped, every instruction that is not a call is unchanged,
\* and every call stays a call at its place with an address as destination.
C28_ResolutionKeepsInstructions ==
    apc \in {"resolved", "converted"} /\ resolved.ok =>
        /\ Len(resolved.val) = InstructionsUpTo(Given, Len(Given))
        /\ \A k \in 1 .. Len(Given) :
               Given[k][1] = "Instruction" =>
                   LET out == resolved.val[InstructionsUpTo(Given, k)] IN
                   IF Variant(Given[k][2]) = "Call"
                   THEN /\ Variant(out) = "Call"
                        /\ Len(out) = 2
                        /\ out[2] \in 0 .. WordsBefore(Given, Len(Given) + 1)
                   ELSE out = Given[k][2]

C28_Witness ==
    /\ apc = "resolved"
    /\ text = <<Decl("foo"), Word("call"), Word("foo"), Word("pop")>>
    /\ resolved.ok
    /\ resolved.val = << <<"Call", 0>>, <<"Pop">> >>


---------------------------------------------------------------------------
(* Properties of the tokenizer (checked under SpecLex) *)

\* s[k..] with every comment removed from its `//` up to the end of its line,
\* the line end staying in the text
RECURSIVE WithoutComments(_, _)
WithoutComments(s, k) ==
    IF k > Len(s) THEN <<>>
    ELSE IF k < Len(s) /\ s[k] = "/" /\ s[k + 1] = "/"
    THEN LET e == CHOOSE j \in (k + 2) .. (Len(s) + 1) :
                      /\ j = Len(s) + 1 \/ s[j] = "\n"
                      /\ \A m \in (k + 2) .. (j - 1) : s[m] # "\n"
         IN  WithoutComments(s, e)
    ELSE <<s[k]>> \o WithoutComments(s, k + 1)

\* the runs of characters between whitespace in s
TokensOf(s) ==
    LET starts == {j \in 1 .. Len(s) :
                      /\ ~is_whitespace(s[j])
                      /\ j = 1 \/ is_whitespace(s[j - 1])}
        EndOf(j) == CHOOSE e \in j .. Len(s) :
                        /\ \A m \in j .. e : ~is_whitespace(s[m])
                        /\ e = Len(s) \/ is_whitespace(s[e + 1])
        RECURSIVE From(_)
        From(j) == IF j > Len(s) THEN <<>>
                   ELSE IF j \in starts THEN <<SubSeq(s, j, EndOf(j))>> \o From(j + 1)
                   ELSE From(j + 1)
    IN  From(1)

\* C24: parse ignores exactly the text from each `//` to the end of that
\* line: the tokens it processes are the whitespace-separated tokens of the
\* text with every comment removed up to its line end, so a token directly
\* before a comment and the first token of the next line stay separate.
C24_CommentsEndAtLineEnd ==
    lpc = "split" => token_list = TokensOf(WithoutComments(code_with_comments, 1))


---------------------------------------------------------------------------
(* Properties of the decoders (checked under SpecDecode) *)

\* some instruction has the opcode n
IsOpcode(n) == \E v \in DOMAIN OPCODES : OPCODES[v] = n

\* C25: decoding an integer that is not the opcode of any instruction returns
\* an error value and never an instruction, for each of the three decoders
\* (from u32, from u64, from usize) and every input of that width, the values
\* from 2^32 on included.
C25_NonOpcodeIsAnError ==
    dpc = "done" /\ ~IsOpcode(number) => ~outcome.ok


---------------------------------------------------------------------------
(* Termination of simulate (checked under SpecLive) and the agreement of   *)
(* run with simulate (checked under SpecRun)                               *)

ReturnedProperly ==
    \/ err = None /\ is_complete(state)
    \/ /\ err # None
       /\ ~is_complete(state)
       /\ ~step_mut(state).ok
       /\ err = <<"Some", step_mut(state).err>>

C30_RunAgreesWithSimulate ==
    vpc = "returned" /\ rpc = "returned" =>
        /\ run_stdout = stdout
        /\ run_err = err
        /\ Len(states) = Len(processor_matrix)
        /\ \A i \in 1 .. Len(states) : processor_matrix[i] = to_processor_row(states[i])

C30_Witness ==
    /\ vpc = "returned"
    /\ rpc = "returned"
    /\ script = << <<"WriteOutputSymbol", 3>>, <<"XlixTrace", 0>>, <<"Err">> >>
    /\ run_err = <<"Some", "step failed">>
    /\ run_stdout = <<3>>
    /\ Len(states) = 3

===========================================================================
